---- MODULE Spec2Model ----
(***************************************************************************)
(* Model of the rx-player playback engine: the presentation surface        *)
(* (createMediaSource / resetMediaElement), the Stream orchestrator        *)
(* (Stream / openStream / createStream / createPeriodBuffer) and the EME   *)
(* driver (createEME / handleInitEncryptedEvent).                          *)
(*                                                                         *)
(* Times are counted in quarter seconds: the END_OF_PLAY threshold of      *)
(* 0.5 s is 2, the 2 s added to look for the next period are 8.            *)
(***************************************************************************)
EXTENDS Integers, Sequences, FiniteSets, TLC

(***************************************************************************)
(* Bounds of the model                                                     *)
(***************************************************************************)
\* number of sinks one run may create (sink ids 1..MaxSinks)
MaxSinks == 2

(***************************************************************************)
(* Buffer types and sinks                                                  *)
(***************************************************************************)
\* "There is 2 native SourceBuffers: audio and video"
NativeTypes == {"audio", "video"}
\* "All other SourceBuffers are custom"
CustomTypes == {"text", "image"}
BufferTypes == NativeTypes \cup CustomTypes

shouldHaveNativeSourceBuffer(bufferType) == bufferType \in NativeTypes

\* absent entry of a sourceBufferMemory map
NoSink == [type |-> "none", id |-> 0]
\* a sink left in the memory by a prior use of it has id 0
PriorSink(t) == [type |-> t, id |-> 0]
NewSink(t, n) == [type |-> t, id |-> n]

\* the src of the element before open: none, or a URL left by a prior use
PrevURL == "blob:previous"
BlobURL == "blob:mediasource"
ContentURL == "http://content"

(***************************************************************************)
(* State                                                                   *)
(***************************************************************************)
VARIABLES
  surfaceState,     \* subscription of createMediaSource: "unsubscribed" |
                    \* "subscribed" | "thrown" | "disposed"
  withMediaSource,  \* argument of createMediaSource
  video_src,        \* video.src ("" when the element has no src)
  mediaSource,      \* closure variable: "undefined" | "null" | "ms"
  ms_readyState,    \* MediaSource.readyState: "closed" | "open" | "ended"
  ms_sourceBuffers, \* MediaSource.sourceBuffers, the live SourceBufferList
  objectURL,        \* closure variable: "null" or a URL
  nativeBuffers,    \* sourceBufferMemory.native
  customBuffers,    \* sourceBufferMemory.custom
  abortedSinks,     \* sinks on which abort() has been called
  revokedURLs,      \* URLs given to URL.revokeObjectURL
  effects,          \* side effects of the last surface operation, in order
  preOpenSrc,       \* video.src as read when the subscription started
  nextSinkId,       \* id of the next sink created
  \* ---- the Stream orchestrator
  streamState,      \* "idle" | "opening" | "backoff" | "started" |
                    \* "completed" | "errored" | "unsubscribed"
  retryCount,       \* retryCount of retryableFuncWithBackoff
  manifest,         \* index in Manifests of the manifest fetched, 0: none yet
  fetchesInFlight,  \* number of manifest requests of fetchManifest under way
  manifestUpdates,  \* number of manifest.update() applied to the manifest
  updateEvents,     \* the values of the manifestUpdate events emitted
  sourceOpened,     \* sourceOpening$ has emitted for the running openStream
  firstPlayedPeriod,\* index of the period of the initial time, 0: none
  tracks,           \* per buffer type: "none" | "pending" | "active" | "disposed"
  segmentAppended,  \* a segment has been appended to a sink
  lastTick,         \* last tick of timings$ seen by endOfPlay
  lastEvent,        \* type of the last StreamEvent emitted
  warnings,         \* errors published on errorStream
  lastError,        \* the error the stream ended with
  \* ---- the EME driver
  keySystems,       \* the keySystems option
  emeState,         \* "off" | "listening" | "creatingMediaKeys" |
                    \* "settingCertificate" | "initializing" |
                    \* "attached" | "sessioned" | "configured"
  emeFirstEvent,    \* first encrypted event: "none" | "initData" | "noInitData"
  keySystemFound,   \* findCompatibleKeySystem has emitted
  video_mediaKeys,  \* video.mediaKeys: "null" | "mediaKeys"
  instanceInfos,    \* the module's singleton
  loadedSessions,   \* $loadedSessions: the initData that have a session
  mksConfiguration, \* what getConfiguration() of the key system found for
                    \* the later encrypted events returns
  ongoingEvents,    \* encryptedEvents$ of createEME: "unsubscribed" |
                    \* "skipping" (skip(1) drops the next event) | "open" |
                    \* "pending" (an event waits for the key system)
  ongoingKeySystem, \* findCompatibleKeySystem of encryptedEvents$ has emitted
  \* ---- the host and the rest of the process
  shouldUnsetMediaKeys, \* what shouldUnsetMediaKeys() returns in the environment
  hostCalls,        \* the calls the host has made to dispose and clearEME
  otherStream,      \* another Stream of the process, on another element:
                    \* "idle" | "active" | "ended"
  otherVideo_mediaKeys, \* mediaKeys of the element of the other Stream
  \* ---- the period buffers of one track
  periodBuffers,    \* the buffers createPeriodBuffer has made, in order
  \* ---- the duration of the MediaSource
  ms_duration,      \* MediaSource.duration
  ms_durationSets,  \* the values the program assigned to it, in order
  durationCalls,    \* the durations setDurationToMediaSource was called with
  \* ---- the overlay sink (OverlayTrackSourceBuffer)
  overlayClock,        \* generateClock(...).takeUntil(_destroy$): "none" (no
                       \* sink) | "running" | "paused" | "destroyed"
  overlay_buffer,      \* _buffer: the entries of the ledger of elements
  overlay_buffered,    \* buffered: the times the sink reports as buffered
  overlay_currentElement, \* _currentElement, 0 for null
  overlayTrackElement, \* the children of the host region, in order
  overlayElements,     \* number of elements the parser has created
  overlayOps,          \* what the last operation of the sink did, in order
  \* ---- the options of the key system
  keySystem_serverCertificate \* keySystem.serverCertificate is given

surfaceVars == <<surfaceState, withMediaSource, video_src, mediaSource,
                 ms_readyState, ms_sourceBuffers, objectURL, nativeBuffers,
                 customBuffers, abortedSinks, revokedURLs, effects,
                 preOpenSrc, nextSinkId>>

liveVars == <<fetchesInFlight, manifestUpdates, updateEvents>>

streamVars == <<streamState, retryCount, manifest, liveVars, sourceOpened,
                firstPlayedPeriod, tracks, segmentAppended, lastTick, lastEvent,
                warnings, lastError>>

emeVars == <<keySystems, emeState, emeFirstEvent, keySystemFound,
             video_mediaKeys, instanceInfos, loadedSessions, mksConfiguration,
             ongoingEvents, ongoingKeySystem>>

hostVars == <<shouldUnsetMediaKeys, hostCalls, otherStream,
              otherVideo_mediaKeys>>

periodVars == <<periodBuffers>>

mediaVars == <<ms_duration, ms_durationSets, durationCalls>>

overlayVars == <<overlayClock, overlay_buffer, overlay_buffered,
                 overlay_currentElement, overlayTrackElement, overlayElements,
                 overlayOps>>

restVars == <<mediaVars, overlayVars, keySystem_serverCertificate>>

vars == <<surfaceVars, streamVars, emeVars, hostVars, periodVars, restVars>>


(***************************************************************************)
(* resetMediaElement                                                       *)
(***************************************************************************)
Effect(op, sink, url) == [op |-> op, sink |-> sink, url |-> url]

RemoveFromList(list, sb) == SelectSeq(list, LAMBDA x : x # sb)

\* The loop over mediaSource.sourceBuffers, on the surface's state s.  The
\* list is the live SourceBufferList of the MediaSource: removeSourceBuffer
\* shrinks it while the index goes up, and its length is read again at every
\* iteration.  readyState was read once, before the loop.
RECURSIVE removeSourceBuffers(_, _, _)
removeSourceBuffers(i, readyState, s) ==
  IF i < Len(s.ms_sourceBuffers)
  THEN LET sourceBuffer == s.ms_sourceBuffers[i + 1]
           isOpen == readyState = "open"
       IN removeSourceBuffers(i + 1, readyState,
            [s EXCEPT
               !.ms_sourceBuffers = RemoveFromList(@, sourceBuffer),
               !.abortedSinks = IF isOpen THEN @ \cup {sourceBuffer} ELSE @,
               !.effects =
                  IF isOpen
                  THEN @ \o <<Effect("abort", sourceBuffer, ""),
                              Effect("removeSourceBuffer", sourceBuffer, "")>>
                  ELSE Append(@, Effect("removeSourceBuffer", sourceBuffer, ""))])
  ELSE s

\* the native sinks: those of the MediaSource this subscription created are
\* aborted and removed from it, and every native entry of the memory is
\* deleted
disposeNativeBuffers(s) ==
  LET looped == IF s.mediaSource = "ms" /\ s.ms_readyState # "closed"
                THEN removeSourceBuffers(0, s.ms_readyState, s)
                ELSE s
  IN [looped EXCEPT !.nativeBuffers = [t \in NativeTypes |-> NoSink]]

\* the custom sinks of the memory are aborted and deleted
RECURSIVE abortCustomBuffers(_, _)
abortCustomBuffers(types, s) ==
  IF types = {} THEN s
  ELSE LET bufferType == CHOOSE x \in types : TRUE
           sourceBuffer == s.customBuffers[bufferType]
       IN abortCustomBuffers(types \ {bufferType},
            IF sourceBuffer = NoSink THEN s
            ELSE [s EXCEPT
                    !.abortedSinks = @ \cup {sourceBuffer},
                    !.effects = Append(@, Effect("abort", sourceBuffer, "")),
                    !.customBuffers = [@ EXCEPT ![bufferType] = NoSink]])

disposeCustomBuffers(s) == abortCustomBuffers(CustomTypes, s)

\* clearVideoSrc as it would be were the src left in place
clearVideoSrc_srcKept(s) ==
  [s EXCEPT !.effects = Append(@, Effect("clearVideoSrc", NoSink, ""))]

\* "the video.src is cleaned"
clearVideoSrc(s) ==
  [s EXCEPT !.video_src = "",
            !.effects = Append(@, Effect("clearVideoSrc", NoSink, ""))]

revokeObjectURL(s) ==
  IF s.objectURL # "null"
  THEN [s EXCEPT !.revokedURLs = @ \cup {s.objectURL},
                 !.effects = Append(@, Effect("revokeObjectURL", NoSink, s.objectURL))]
  ELSE s

\* s: the surface's state; the result is its state after the call
resetMediaElement(s) ==
  LET done == revokeObjectURL(clearVideoSrc(disposeCustomBuffers(
                disposeNativeBuffers([s EXCEPT !.effects = <<>>]))))
  IN [done EXCEPT !.mediaSource = "null", !.objectURL = "null"]

\* the surface's state as one record, and back
Surface ==
  [video_src |-> video_src, mediaSource |-> mediaSource,
   ms_readyState |-> ms_readyState, ms_sourceBuffers |-> ms_sourceBuffers,
   objectURL |-> objectURL, nativeBuffers |-> nativeBuffers,
   customBuffers |-> customBuffers, abortedSinks |-> abortedSinks,
   revokedURLs |-> revokedURLs, effects |-> effects]

SetSurface(s) ==
  /\ video_src' = s.video_src
  /\ mediaSource' = s.mediaSource
  /\ ms_readyState' = s.ms_readyState
  /\ ms_sourceBuffers' = s.ms_sourceBuffers
  /\ objectURL' = s.objectURL
  /\ nativeBuffers' = s.nativeBuffers
  /\ customBuffers' = s.customBuffers
  /\ abortedSinks' = s.abortedSinks
  /\ revokedURLs' = s.revokedURLs
  /\ effects' = s.effects

(***************************************************************************)
(* createMediaSource: the subscription function and its teardown           *)
(***************************************************************************)
\* createMediaSource as it would be without the reset that opens it
createMediaSource_withoutReset(s, url, useMediaSource, MediaSource_) ==
  LET start == [s EXCEPT !.mediaSource = "undefined", !.effects = <<>>,
                         !.objectURL = IF s.video_src # "" THEN s.video_src
                                                            ELSE "null"]
  IN IF useMediaSource /\ ~MediaSource_
     THEN [thrown |-> TRUE, surface |-> start]
     ELSE LET newURL == IF useMediaSource THEN BlobURL ELSE url
          IN [thrown |-> FALSE,
              surface |-> [start EXCEPT
                 !.mediaSource = IF useMediaSource THEN "ms" ELSE "null",
                 !.ms_readyState = "closed",
                 !.ms_sourceBuffers = <<>>,
                 !.objectURL = newURL,
                 !.video_src = newURL,
                 !.effects = Append(@, Effect("setSrc", NoSink, newURL))]]

\* the body run on subscription; MediaSource_ is the environment's
\* MediaSource constructor (absent when the environment has none)
createMediaSource(s, url, useMediaSource, MediaSource_) ==
  LET start == [s EXCEPT !.mediaSource = "undefined",
                         !.objectURL = IF s.video_src # "" THEN s.video_src
                                                            ELSE "null"]
      reset == resetMediaElement(start)
  IN IF useMediaSource
     THEN IF ~MediaSource_
          THEN [thrown |-> TRUE, surface |-> reset]
          ELSE [thrown |-> FALSE,
                surface |-> [reset EXCEPT
                   !.mediaSource = "ms",
                   !.ms_readyState = "closed",
                   !.ms_sourceBuffers = <<>>,
                   !.objectURL = BlobURL,
                   !.video_src = BlobURL,
                   !.effects = Append(@, Effect("setSrc", NoSink, BlobURL))]]
     ELSE [thrown |-> FALSE,
           surface |-> [reset EXCEPT
              !.mediaSource = "null",
              !.objectURL = url,
              !.video_src = url,
              !.effects = Append(@, Effect("setSrc", NoSink, url))]]

(***************************************************************************)
(* Sinks of the surface: addNativeSourceBuffer, createSourceBuffer and     *)
(* disposeSourceBuffer ("Allow to avoid creating multiple sourceBuffers    *)
(* for the same type")                                                     *)
(***************************************************************************)
\* one native sink per type: the sink of the memory is reused when there is
\* one; mediaSource.addSourceBuffer throws unless the MediaSource is open
addNativeSourceBuffer(s, bufferType, id) ==
  IF s.nativeBuffers[bufferType] # NoSink
  THEN [thrown |-> FALSE, created |-> FALSE, surface |-> s]
  ELSE IF s.ms_readyState # "open"
  THEN [thrown |-> TRUE, created |-> FALSE, surface |-> s]
  ELSE [thrown |-> FALSE, created |-> TRUE,
        surface |-> [s EXCEPT
           !.ms_sourceBuffers = Append(@, NewSink(bufferType, id)),
           !.nativeBuffers = [@ EXCEPT ![bufferType] = NewSink(bufferType, id)]]]

\* a custom sink replaces (and aborts) the one of the memory
createSourceBuffer(s, bufferType, id) ==
  IF shouldHaveNativeSourceBuffer(bufferType)
  THEN addNativeSourceBuffer(s, bufferType, id)
  ELSE LET old == s.customBuffers[bufferType]
       IN [thrown |-> FALSE, created |-> TRUE,
           surface |-> [s EXCEPT
              !.abortedSinks = IF old # NoSink THEN @ \cup {old} ELSE @,
              !.customBuffers = [@ EXCEPT ![bufferType] = NewSink(bufferType, id)]]]

disposeSourceBuffer(s, bufferType) ==
  IF shouldHaveNativeSourceBuffer(bufferType)
  THEN LET old == s.nativeBuffers[bufferType]
       IN IF old = NoSink THEN s
          ELSE [s EXCEPT
                  !.nativeBuffers = [@ EXCEPT ![bufferType] = NoSink],
                  !.abortedSinks = @ \cup {old},
                  !.ms_sourceBuffers = RemoveFromList(@, old)]
  ELSE LET old == s.customBuffers[bufferType]
       IN IF old = NoSink THEN s
          ELSE [s EXCEPT
                  !.customBuffers = [@ EXCEPT ![bufferType] = NoSink],
                  !.abortedSinks = @ \cup {old}]

\* the keySystems option when the host configures no key system
NoKeySystem ==
  [configured |-> FALSE, persistentLicense |-> FALSE, licenseStorage |-> FALSE]

\* the orchestrator and the EME driver before any subscription
NoTick == [currentTime |-> -1, duration |-> -1]
NoInstanceInfos ==
  [mediaKeys |-> "null", mediaKeySystemConfiguration |-> "null",
   keySystem |-> "null", videoElement |-> "null"]

NoError == [type |-> "none", code |-> "none", fatal |-> FALSE]

\* the values of a duration: a number of quarter seconds, Number.MAX_VALUE,
\* Infinity or NaN
Number(n) == [kind |-> "number", value |-> n]
Number_MAX_VALUE == [kind |-> "MAX_VALUE", value |-> 0]
Infinity == [kind |-> "Infinity", value |-> 0]
NaN == [kind |-> "NaN", value |-> 0]

\* the duration of a MediaSource is NaN until it is set
MediaIdle ==
  /\ ms_duration = NaN
  /\ ms_durationSets = <<>>
  /\ durationCalls = <<>>

\* no overlay sink has been constructed
OverlayIdle ==
  /\ overlayClock = "none"
  /\ overlay_buffer = {}
  /\ overlay_buffered = {}
  /\ overlay_currentElement = 0
  /\ overlayTrackElement = <<>>
  /\ overlayElements = 0
  /\ overlayOps = <<>>

\* the key systems given, if any, come with a server certificate
ServerCertificateGiven == keySystem_serverCertificate = TRUE

RestIdle == MediaIdle /\ OverlayIdle /\ ServerCertificateGiven

StreamNotStarted ==
  /\ streamState = "idle"
  /\ retryCount = 0
  /\ manifest = 0
  /\ fetchesInFlight = 0
  /\ manifestUpdates = 0
  /\ updateEvents = <<>>
  /\ sourceOpened = FALSE
  /\ firstPlayedPeriod = 0
  /\ tracks = [t \in BufferTypes |-> "none"]
  /\ segmentAppended = FALSE
  /\ lastTick = NoTick
  /\ lastEvent = "none"
  /\ warnings = 0
  /\ lastError = NoError
  /\ emeState = "off"
  /\ emeFirstEvent = "none"
  /\ keySystemFound = FALSE
  /\ video_mediaKeys = "null"
  /\ instanceInfos = NoInstanceInfos
  /\ loadedSessions = {}
  /\ ongoingEvents = "unsubscribed"
  /\ ongoingKeySystem = FALSE
  /\ hostCalls = <<>>
  /\ otherStream = "idle"
  /\ otherVideo_mediaKeys = "null"
  /\ periodBuffers = <<>>

(***************************************************************************)
(* The presentation surface on its own: createMediaSource is subscribed    *)
(* with an element and a sourceBufferMemory in any state a prior use may   *)
(* have left, sinks are added and removed, and the subscription ends.      *)
(***************************************************************************)
SurfaceInit ==
  /\ surfaceState = "unsubscribed"
  /\ withMediaSource \in BOOLEAN
  /\ video_src \in {"", PrevURL}
  /\ mediaSource = "undefined"
  /\ ms_readyState = "closed"
  /\ ms_sourceBuffers = <<>>
  /\ objectURL = "null"
  /\ nativeBuffers \in [NativeTypes -> {NoSink}]
                         \cup {[t \in NativeTypes |-> PriorSink(t)]}
                         \cup {[t \in NativeTypes |->
                                  IF t = "audio" THEN PriorSink(t) ELSE NoSink]}
  /\ customBuffers \in [CustomTypes -> {NoSink}]
                         \cup {[t \in CustomTypes |->
                                  IF t = "text" THEN PriorSink(t) ELSE NoSink]}
  /\ abortedSinks = {}
  /\ revokedURLs = {}
  /\ effects = <<>>
  /\ preOpenSrc = ""
  /\ nextSinkId = 1
  /\ StreamNotStarted
  /\ keySystems = NoKeySystem
  /\ mksConfiguration = "configuration"
  /\ shouldUnsetMediaKeys = TRUE
  /\ RestIdle

\* subscription of the Observable returned by createMediaSource
SurfaceSubscribe ==
  /\ surfaceState = "unsubscribed"
  /\ \E MediaSource_ \in BOOLEAN :
       LET r == createMediaSource(Surface, ContentURL, withMediaSource, MediaSource_)
       IN /\ SetSurface(r.surface)
          /\ surfaceState' = IF r.thrown THEN "thrown" ELSE "subscribed"
  /\ preOpenSrc' = video_src
  /\ UNCHANGED <<withMediaSource, nextSinkId>>
  /\ UNCHANGED <<streamVars, emeVars, hostVars, periodVars, restVars>>

\* the element opens the MediaSource attached to it ("sourceopen")
SurfaceSourceOpen ==
  /\ surfaceState = "subscribed"
  /\ mediaSource = "ms"
  /\ ms_readyState = "closed"
  /\ video_src = objectURL
  /\ ms_readyState' = "open"
  /\ UNCHANGED <<surfaceState, withMediaSource, video_src, mediaSource,
                 ms_sourceBuffers, objectURL, nativeBuffers, customBuffers,
                 abortedSinks, revokedURLs, effects, preOpenSrc, nextSinkId>>
  /\ UNCHANGED <<streamVars, emeVars, hostVars, periodVars, restVars>>

\* the stream of the MediaSource is ended (endOfStream)
SurfaceEndOfStream ==
  /\ surfaceState = "subscribed"
  /\ mediaSource = "ms"
  /\ ms_readyState = "open"
  /\ ms_readyState' = "ended"
  /\ UNCHANGED <<surfaceState, withMediaSource, video_src, mediaSource,
                 ms_sourceBuffers, objectURL, nativeBuffers, customBuffers,
                 abortedSinks, revokedURLs, effects, preOpenSrc, nextSinkId>>
  /\ UNCHANGED <<streamVars, emeVars, hostVars, periodVars, restVars>>

SurfaceAddSink(bufferType) ==
  /\ surfaceState = "subscribed"
  /\ mediaSource = "ms"
  /\ ms_readyState = "open"
  /\ nextSinkId <= MaxSinks
  /\ LET r == createSourceBuffer(Surface, bufferType, nextSinkId)
     IN /\ r.created
        /\ SetSurface([r.surface EXCEPT !.effects = <<>>])
  /\ nextSinkId' = nextSinkId + 1
  /\ UNCHANGED <<surfaceState, withMediaSource, preOpenSrc>>
  /\ UNCHANGED <<streamVars, emeVars, hostVars, periodVars, restVars>>

SurfaceRemoveSink(bufferType) ==
  /\ surfaceState = "subscribed"
  /\ mediaSource = "ms"
  /\ \/ shouldHaveNativeSourceBuffer(bufferType) /\ nativeBuffers[bufferType] # NoSink
     \/ ~shouldHaveNativeSourceBuffer(bufferType) /\ customBuffers[bufferType] # NoSink
  /\ SetSurface([disposeSourceBuffer(Surface, bufferType) EXCEPT !.effects = <<>>])
  /\ UNCHANGED <<surfaceState, withMediaSource, preOpenSrc, nextSinkId>>
  /\ UNCHANGED <<streamVars, emeVars, hostVars, periodVars, restVars>>

\* unsubscription: the teardown returned by the subscription function
SurfaceTeardown ==
  /\ surfaceState = "subscribed"
  /\ SetSurface(resetMediaElement(Surface))
  /\ surfaceState' = "disposed"
  /\ UNCHANGED <<withMediaSource, preOpenSrc, nextSinkId>>
  /\ UNCHANGED <<streamVars, emeVars, hostVars, periodVars, restVars>>

SurfaceNext ==
  \/ SurfaceSubscribe
  \/ SurfaceSourceOpen
  \/ SurfaceEndOfStream
  \/ \E t \in BufferTypes : SurfaceAddSink(t)
  \/ \E t \in BufferTypes : SurfaceRemoveSink(t)
  \/ SurfaceTeardown

SpecSurface == SurfaceInit /\ [][SurfaceNext]_vars

(***************************************************************************)
(* Manifests.  Times are in quarter seconds.                                *)
(***************************************************************************)
\* an adaptation, by the number of its representations
Adaptation(n) == [representations |-> n]

\* the manifests of a content of 30 s
Manifests ==
  << \* one period with audio and video
     [periods |->
        << [start |-> 0, end |-> 120,
            adaptations |-> [audio |-> <<Adaptation(1)>>,
                             video |-> <<Adaptation(1)>>]] >>,
      isLive |-> FALSE, url |-> TRUE],
     \* two periods: audio and text, then audio and video
     [periods |->
        << [start |-> 0, end |-> 40,
            adaptations |-> [audio |-> <<Adaptation(1)>>,
                             text |-> <<Adaptation(1)>>]],
           [start |-> 40, end |-> 120,
            adaptations |-> [audio |-> <<Adaptation(2), Adaptation(1)>>,
                             video |-> <<Adaptation(1)>>]] >>,
      isLive |-> FALSE, url |-> TRUE],
     \* one period with video and text
     [periods |->
        << [start |-> 0, end |-> 120,
            adaptations |-> [video |-> <<Adaptation(1)>>,
                             text |-> <<Adaptation(1)>>]] >>,
      isLive |-> FALSE, url |-> TRUE],
     \* a live content, one period with audio and video
     [periods |->
        << [start |-> 0, end |-> 120,
            adaptations |-> [audio |-> <<Adaptation(1)>>,
                             video |-> <<Adaptation(1)>>]] >>,
      isLive |-> TRUE, url |-> TRUE],
     \* the same, the manifest having no url
     [periods |->
        << [start |-> 0, end |-> 120,
            adaptations |-> [audio |-> <<Adaptation(1)>>,
                             video |-> <<Adaptation(1)>>]] >>,
      isLive |-> TRUE, url |-> FALSE] >>

\* the manifests of the contents that are not live
StaticManifests == {m \in 1..Len(Manifests) : ~Manifests[m].isLive}

\* the initial times getInitialTime may compute from the startAt option
StartTimes == {0, 50, 150}

\* manifest.adaptations: the adaptations of the manifest's first period
manifestAdaptations(m) ==
  IF Len(m.periods) >= 1 THEN m.periods[1].adaptations ELSE <<>>

\* manifest.getPeriodForTime: the index of the period holding the time, 0
\* when there is none
getPeriodForTime(m, time) ==
  LET holding == {i \in 1..Len(m.periods) :
                    m.periods[i].start <= time /\ time < m.periods[i].end}
  IN IF holding = {} THEN 0 ELSE CHOOSE i \in holding : \A j \in holding : i <= j

(***************************************************************************)
(* Stream: endOfPlay, retryOptions, createStream                           *)
(***************************************************************************)
\* config.END_OF_PLAY: 0.5 s
END_OF_PLAY == 2

\* the ticks timings$ may carry: 29.5 s and 29.75 s of a content of 30 s,
\* and the tick of an element whose duration is 0
Ticks ==
  {[currentTime |-> 0, duration |-> 0],
   [currentTime |-> 118, duration |-> 120], [currentTime |-> 119, duration |-> 120]}

\* endOfPlay as it would be without its test of the duration
endOfPlay_anyDuration(tick) ==
  tick.duration - tick.currentTime < END_OF_PLAY

\* endOfPlay as it would be if it let through the tick END_OF_PLAY before the
\* end
endOfPlay_inclusive(tick) ==
  tick.duration > 0 /\ tick.duration - tick.currentTime <= END_OF_PLAY

\* the filter of endOfPlay
endOfPlay(tick) ==
  tick.duration > 0 /\ tick.duration - tick.currentTime < END_OF_PLAY

\* retryOptions.totalRetry
totalRetry == 3

\* throttle as it would be if it let every call through
throttle_unthrottled(inFlight) == TRUE

\* throttle: the call goes through unless a call is under way
throttle(inFlight) == inFlight = 0

\* fetchManifest: the requests under way once it has been called
fetchManifest(inFlight) ==
  IF throttle(inFlight) THEN inFlight + 1 ELSE inFlight

\* an error is "fatal" (a known error whose fatal flag is set), "nonFatal"
\* (a known error whose flag is not set) or "unknown" (not of the catalog)
ErrorKinds == {"fatal", "nonFatal", "unknown"}

\* shouldRetry as it would be if it did not look at the fatal flag
shouldRetry_always(kind) == TRUE

shouldRetry(kind) == kind # "fatal"

\* errorSelector as it would be if it left the fatal flag of a known error
\* as it is
errorSelector_flagKept(kind, code) ==
  IF kind = "unknown"
  THEN [type |-> "OtherError", code |-> "NONE", fatal |-> TRUE]
  ELSE [type |-> "known", code |-> code, fatal |-> kind = "fatal"]

errorSelector(kind, code) ==
  IF kind = "unknown"
  THEN [type |-> "OtherError", code |-> "NONE", fatal |-> TRUE]
  ELSE [type |-> "known", code |-> code, fatal |-> TRUE]

\* the loop of createStream over Object.keys(manifest.adaptations), which
\* adds the native sinks from the adaptations of manifest.periods[0]
RECURSIVE addNativeSourceBuffers(_, _, _, _)
addNativeSourceBuffers(types, m, s, id) ==
  IF types = {} THEN [thrown |-> FALSE, surface |-> s, nextId |-> id]
  ELSE
    LET bufferType == CHOOSE t \in types : TRUE
        rest == types \ {bufferType}
        adaptations ==
          IF Len(m.periods) >= 1 /\ bufferType \in DOMAIN m.periods[1].adaptations
          THEN m.periods[1].adaptations[bufferType]
          ELSE <<>>
    IN IF ~shouldHaveNativeSourceBuffer(bufferType)
       THEN addNativeSourceBuffers(rest, m, s, id)
       ELSE IF adaptations = <<>>
       THEN \* adaptations[0] is undefined: a TypeError
            [thrown |-> TRUE, surface |-> s, nextId |-> id]
       ELSE IF adaptations[1].representations = 0
       THEN addNativeSourceBuffers(rest, m, s, id)
       ELSE LET r == addNativeSourceBuffer(s, bufferType, id)
            IN IF r.thrown
               THEN [thrown |-> TRUE, surface |-> s, nextId |-> id]
               ELSE addNativeSourceBuffers(rest, m, r.surface,
                      IF r.created THEN id + 1 ELSE id)

\* createStream as it would be if the MediaError thrown for a missing
\* MediaSource were not fatal
createStream_nullNotFatal(s, m, startTime, id) ==
  IF s.mediaSource # "ms"
  THEN [outcome |-> "known", code |-> "UNAVAILABLE_MEDIA_SOURCE",
        surface |-> s, period |-> 0, nextId |-> id]
  ELSE
    LET sinks == addNativeSourceBuffers(DOMAIN manifestAdaptations(m), m, s, id)
        period == getPeriodForTime(m, startTime)
    IN IF sinks.thrown
       THEN [outcome |-> "unknown", code |-> "TypeError",
             surface |-> sinks.surface, period |-> 0, nextId |-> sinks.nextId]
       ELSE IF period = 0
       THEN [outcome |-> "fatal", code |-> "MEDIA_STARTING_TIME_NOT_FOUND",
             surface |-> sinks.surface, period |-> 0, nextId |-> sinks.nextId]
       ELSE [outcome |-> "ok", code |-> "none",
             surface |-> sinks.surface, period |-> period, nextId |-> sinks.nextId]

\* createStream as it would be if it fell back on the first period when no
\* period holds the initial time
createStream_firstPeriod(s, m, startTime, id) ==
  IF s.mediaSource # "ms"
  THEN [outcome |-> "fatal", code |-> "UNAVAILABLE_MEDIA_SOURCE",
        surface |-> s, period |-> 0, nextId |-> id]
  ELSE
    LET sinks == addNativeSourceBuffers(DOMAIN manifestAdaptations(m), m, s, id)
        period == getPeriodForTime(m, startTime)
    IN IF sinks.thrown
       THEN [outcome |-> "unknown", code |-> "TypeError",
             surface |-> sinks.surface, period |-> 0, nextId |-> sinks.nextId]
       ELSE [outcome |-> "ok", code |-> "none", surface |-> sinks.surface,
             period |-> IF period = 0 THEN 1 ELSE period,
             nextId |-> sinks.nextId]

\* createStream up to the point where it returns the merged Observable
\* (outcome "ok") or throws
createStream(s, m, startTime, id) ==
  IF s.mediaSource # "ms"
  THEN [outcome |-> "fatal", code |-> "UNAVAILABLE_MEDIA_SOURCE",
        surface |-> s, period |-> 0, nextId |-> id]
  ELSE
    LET sinks == addNativeSourceBuffers(DOMAIN manifestAdaptations(m), m, s, id)
        period == getPeriodForTime(m, startTime)
    IN IF sinks.thrown
       THEN [outcome |-> "unknown", code |-> "TypeError",
             surface |-> sinks.surface, period |-> 0, nextId |-> sinks.nextId]
       ELSE IF period = 0
       THEN [outcome |-> "fatal", code |-> "MEDIA_STARTING_TIME_NOT_FOUND",
             surface |-> sinks.surface, period |-> 0, nextId |-> sinks.nextId]
       ELSE [outcome |-> "ok", code |-> "none",
             surface |-> sinks.surface, period |-> period, nextId |-> sinks.nextId]

(***************************************************************************)
(* EME: handleSessionStorage, handleInitEncryptedEvent                     *)
(***************************************************************************)
\* a key system whose licences are not persisted
KeySystem ==
  [configured |-> TRUE, persistentLicense |-> FALSE, licenseStorage |-> FALSE]

\* a key system whose licences are persisted in the licenseStorage given
PersistentKeySystem ==
  [configured |-> TRUE, persistentLicense |-> TRUE, licenseStorage |-> TRUE]

\* the keySystems option: none, or one key system, which may ask for
\* persistent licences without giving a licenseStorage
KeySystemOptions ==
  {NoKeySystem, KeySystem,
   [configured |-> TRUE, persistentLicense |-> TRUE, licenseStorage |-> FALSE]}

\* the configurations getConfiguration() may return
Configurations == {"configuration", "otherConfiguration"}

\* handleSessionStorage as it would be without its test of licenseStorage
handleSessionStorage_withoutCheck(keySystem) == "none"

\* the code of the error thrown, "none" when nothing is thrown
handleSessionStorage(keySystem) ==
  IF keySystem.persistentLicense /\ ~keySystem.licenseStorage
  THEN "INVALID_KEY_SYSTEM"
  ELSE "none"

\* handleInitEncryptedEvent as it would be without its test of initData
handleInitEncryptedEvent_withoutInitData(firstEvent, keySystem) ==
  handleSessionStorage(keySystem)

\* the synchronous part of handleInitEncryptedEvent, before createMediaKeys:
\* the code of the error thrown, "none" when createMediaKeys is called
handleInitEncryptedEvent(firstEvent, keySystem) ==
  IF firstEvent = "noInitData" THEN "INVALID_ENCRYPTED_EVENT"
  ELSE handleSessionStorage(keySystem)

\* compareMksConfigurations: the two configurations are the same
compareMksConfigurations(mksConfig, recorded) == mksConfig = recorded

\* the synchronous part of the project function of
\* handleOngoingPlaybackEncryptedEvents: the code of the error thrown, "none"
\* when manageSessionCreation is called
handleOngoingPlaybackEncryptedEvents(mediaKeys, initData, keySystem, mksConfig, recorded) ==
  IF mediaKeys = "null" THEN "INVALID_ENCRYPTED_EVENT"
  ELSE IF initData = "noInitData" THEN "INVALID_ENCRYPTED_EVENT"
  ELSE IF handleSessionStorage(keySystem) # "none"
  THEN handleSessionStorage(keySystem)
  ELSE IF ~compareMksConfigurations(mksConfig, recorded)
  THEN "INVALID_ENCRYPTED_EVENT"
  ELSE "none"

\* manageSessionCreation: a session is opened for the initData unless there
\* is one already
manageSessionCreation(sessions, initData) == sessions \cup {initData}

(***************************************************************************)
(* The Stream Observable: actions                                          *)
(***************************************************************************)
Live == {"opening", "backoff", "started"}

\* the subscriptions made by openStream and createStream are gone
InnerUnsubscribed ==
  /\ manifest' = 0
  /\ fetchesInFlight' = 0
  /\ manifestUpdates' = 0
  /\ updateEvents' = <<>>
  /\ sourceOpened' = FALSE
  /\ firstPlayedPeriod' = 0
  /\ tracks' = [t \in BufferTypes |-> "none"]
  /\ emeState' = "off"
  /\ emeFirstEvent' = "none"
  /\ keySystemFound' = FALSE
  /\ ongoingEvents' = "unsubscribed"
  /\ ongoingKeySystem' = FALSE

\* the Stream Observable ends (completion, error or unsubscription): the
\* teardown of createMediaSource runs
Terminate(endState, s) ==
  /\ streamState' = endState
  /\ SetSurface(resetMediaElement(s))
  /\ surfaceState' = "disposed"
  /\ InnerUnsubscribed

\* an error is raised inside openStream, the surface being in state s:
\* retryableFuncWithBackoff retries or gives up
Raise(kind, code, s) ==
  IF shouldRetry(kind) /\ retryCount < totalRetry
  THEN /\ retryCount' = retryCount + 1
       /\ warnings' = warnings + 1
       /\ streamState' = "backoff"
       /\ SetSurface(s)
       /\ InnerUnsubscribed
       /\ UNCHANGED <<surfaceState, lastError>>
  ELSE /\ Terminate("errored", s)
       /\ lastError' = errorSelector(kind, code)
       /\ UNCHANGED <<retryCount, warnings>>

\* createStream runs for the manifest m, the initial time being startTime
StartAt(m, s, startTime) ==
    LET r == createStream(s, Manifests[m], startTime, nextSinkId)
    IN /\ r.nextId <= MaxSinks + 1
       /\ nextSinkId' = r.nextId
       /\ IF r.outcome = "ok"
          THEN /\ streamState' = "started"
               /\ SetSurface(r.surface)
               /\ manifest' = m
               /\ fetchesInFlight' = 0
               /\ UNCHANGED <<manifestUpdates, updateEvents>>
               /\ sourceOpened' = TRUE
               /\ firstPlayedPeriod' = r.period
               /\ tracks' = [t \in BufferTypes |->
                    IF t \in DOMAIN Manifests[m].periods[r.period].adaptations
                    THEN "pending" ELSE "none"]
               /\ emeState' = "listening"
               /\ emeFirstEvent' = "none"
               /\ keySystemFound' = FALSE
               /\ ongoingEvents' = "unsubscribed"
               /\ ongoingKeySystem' = FALSE
               /\ lastEvent' = "manifestChange"
               /\ UNCHANGED <<surfaceState, retryCount, warnings, lastError>>
          ELSE /\ Raise(r.outcome, r.code, r.surface)
               /\ UNCHANGED lastEvent

\* combineLatest has both the manifest and sourceopen: createStream runs
Start(m, s) == \E startTime \in StartTimes : StartAt(m, s, startTime)

\* nothing is subscribed, the element and the sourceBufferMemory are new
StreamIdle ==
  /\ surfaceState = "unsubscribed"
  /\ video_src = ""
  /\ mediaSource = "undefined"
  /\ ms_readyState = "closed"
  /\ ms_sourceBuffers = <<>>
  /\ objectURL = "null"
  /\ nativeBuffers = [t \in NativeTypes |-> NoSink]
  /\ customBuffers = [t \in CustomTypes |-> NoSink]
  /\ abortedSinks = {}
  /\ revokedURLs = {}
  /\ effects = <<>>
  /\ preOpenSrc = ""
  /\ nextSinkId = 1
  /\ StreamNotStarted

StreamInit ==
  /\ StreamIdle
  /\ withMediaSource \in BOOLEAN
  /\ keySystems \in KeySystemOptions
  /\ mksConfiguration = "configuration"
  /\ shouldUnsetMediaKeys = TRUE
  /\ RestIdle

\* the host subscribes to the Observable Stream returns
Subscribe ==
  /\ streamState = "idle"
  /\ preOpenSrc' = video_src
  /\ \E MediaSource_ \in BOOLEAN :
       LET r == createMediaSource(Surface, ContentURL, withMediaSource, MediaSource_)
       IN /\ SetSurface(r.surface)
          /\ IF r.thrown
             THEN /\ surfaceState' = "thrown"
                  /\ streamState' = "errored"
                  /\ lastError' = [type |-> "known", fatal |-> TRUE,
                                   code |-> "MEDIA_SOURCE_NOT_SUPPORTED"]
                  /\ UNCHANGED <<sourceOpened, fetchesInFlight>>
             ELSE /\ surfaceState' = "subscribed"
                  /\ streamState' = "opening"
                  /\ sourceOpened' = (r.surface.mediaSource # "ms")
                  /\ fetchesInFlight' = fetchManifest(fetchesInFlight)
                  /\ UNCHANGED lastError
  /\ UNCHANGED <<withMediaSource, nextSinkId, retryCount, manifest,
                 manifestUpdates, updateEvents, firstPlayedPeriod, tracks, segmentAppended, lastTick, lastEvent,
                 warnings, emeVars>>
  /\ UNCHANGED <<hostVars, periodVars, restVars>>

\* the manifest pipeline emits the parsed manifest
ManifestFetched(m) ==
  /\ streamState = "opening"
  /\ manifest = 0
  /\ IF sourceOpened
     THEN Start(m, Surface)
     ELSE /\ manifest' = m
          /\ fetchesInFlight' = fetchesInFlight - 1
          /\ UNCHANGED <<manifestUpdates, updateEvents>>
          /\ UNCHANGED <<surfaceState, video_src, mediaSource, ms_readyState,
                         ms_sourceBuffers, objectURL, nativeBuffers,
                         customBuffers, abortedSinks, revokedURLs, effects,
                         nextSinkId, streamState, retryCount, sourceOpened,
                         firstPlayedPeriod, tracks, lastEvent, warnings,
                         lastError, emeState, emeFirstEvent, keySystemFound, ongoingEvents, ongoingKeySystem>>
  /\ UNCHANGED <<withMediaSource, preOpenSrc, segmentAppended, lastTick,
                 keySystems, mksConfiguration, video_mediaKeys, instanceInfos,
                 loadedSessions>>
  /\ UNCHANGED <<hostVars, periodVars, restVars>>

\* the manifest pipeline fails
ManifestError(kind) ==
  /\ streamState = "opening"
  /\ manifest = 0
  /\ Raise(kind, "PIPELINE_LOAD_ERROR", Surface)
  /\ UNCHANGED <<withMediaSource, preOpenSrc, nextSinkId, segmentAppended,
                 lastTick, lastEvent, keySystems, mksConfiguration, video_mediaKeys, instanceInfos, loadedSessions>>
  /\ UNCHANGED <<hostVars, periodVars, restVars>>

\* the element opens the MediaSource attached to it: "sourceopen"
SourceOpen ==
  /\ surfaceState = "subscribed"
  /\ mediaSource = "ms"
  /\ ms_readyState = "closed"
  /\ video_src = objectURL
  /\ IF streamState = "opening" /\ manifest # 0
     THEN Start(manifest, [Surface EXCEPT !.ms_readyState = "open"])
     ELSE /\ ms_readyState' = "open"
          /\ sourceOpened' = (sourceOpened \/ streamState = "opening")
          /\ UNCHANGED <<surfaceState, video_src, mediaSource,
                         ms_sourceBuffers, objectURL, nativeBuffers,
                         customBuffers, abortedSinks, revokedURLs, effects,
                         nextSinkId, streamState, retryCount, manifest, liveVars,
                         firstPlayedPeriod, tracks, lastEvent, warnings,
                         lastError, emeState, emeFirstEvent, keySystemFound, ongoingEvents, ongoingKeySystem>>
  /\ UNCHANGED <<withMediaSource, preOpenSrc, segmentAppended, lastTick,
                 keySystems, mksConfiguration, video_mediaKeys, instanceInfos,
                 loadedSessions>>
  /\ UNCHANGED <<hostVars, periodVars, restVars>>

\* the timer of the retry fires: openStream is called again
RetryFires ==
  /\ streamState = "backoff"
  /\ streamState' = "opening"
  /\ sourceOpened' = (mediaSource # "ms")
  /\ fetchesInFlight' = fetchManifest(fetchesInFlight)
  /\ UNCHANGED <<manifestUpdates, updateEvents>>
  /\ UNCHANGED <<surfaceVars, retryCount, manifest, firstPlayedPeriod, tracks,
                 segmentAppended, lastTick, lastEvent, warnings, lastError,
                 emeVars>>
  /\ UNCHANGED <<hostVars, periodVars, restVars>>

\* timings$ emits a tick; takeUntil(endOfPlay) completes the stream on the
\* ticks endOfPlay lets through
Tick(tick) ==
  /\ streamState \in Live
  /\ lastTick' = tick
  /\ IF endOfPlay(tick)
     THEN /\ Terminate("completed", Surface)
          /\ UNCHANGED <<retryCount, warnings, lastError>>
     ELSE UNCHANGED <<surfaceState, video_src, mediaSource, ms_readyState,
                      ms_sourceBuffers, objectURL, nativeBuffers,
                      customBuffers, abortedSinks, revokedURLs, effects,
                      streamState, retryCount, manifest, liveVars, sourceOpened,
                      firstPlayedPeriod, tracks, warnings, lastError,
                      emeState, emeFirstEvent, keySystemFound, ongoingEvents, ongoingKeySystem>>
  /\ UNCHANGED <<withMediaSource, preOpenSrc, nextSinkId, segmentAppended,
                 lastEvent, keySystems, mksConfiguration, video_mediaKeys,
                 instanceInfos, loadedSessions>>
  /\ UNCHANGED <<hostVars, periodVars, restVars>>

\* the host unsubscribes
Unsubscribe ==
  /\ streamState \in Live
  /\ Terminate("unsubscribed", Surface)
  /\ UNCHANGED <<withMediaSource, preOpenSrc, nextSinkId, retryCount,
                 segmentAppended, lastTick, lastEvent, warnings, lastError,
                 keySystems, mksConfiguration, video_mediaKeys, instanceInfos,
                 loadedSessions>>
  /\ UNCHANGED <<hostVars, periodVars, restVars>>

\* an Observable merged by createStream (a buffer, the media error handler,
\* the speed or stalling manager) fails
StreamError(kind) ==
  /\ streamState = "started"
  /\ Raise(kind, "MEDIA_ERR", Surface)
  /\ UNCHANGED <<withMediaSource, preOpenSrc, nextSinkId, segmentAppended,
                 lastTick, lastEvent, keySystems, mksConfiguration, video_mediaKeys, instanceInfos, loadedSessions>>
  /\ UNCHANGED <<hostVars, periodVars, restVars>>

\* what is left alone by the actions that change neither the surface nor the
\* state of the subscriptions
ControlUnchanged ==
  UNCHANGED <<surfaceVars, streamState, retryCount, manifest, liveVars, sourceOpened,
              firstPlayedPeriod, warnings, lastError>>

\* the project function of periodBuffer$'s switchMap: null disposes the sink
\* of the type, an adaptation gets the sink the adaptation buffer will fill
periodBuffer(s, bufferType, isNull, id) ==
  IF isNull
  THEN [thrown |-> FALSE, created |-> FALSE,
        surface |-> disposeSourceBuffer(s, bufferType)]
  ELSE createSourceBuffer(s, bufferType, id)

\* the host emits an adaptation, or null, on the adaptation subject of a
\* track: switchMap of periodBuffer$
SwitchAdaptation(bufferType, isNull) ==
  /\ streamState = "started"
  /\ tracks[bufferType] # "none"
  /\ LET r == periodBuffer(Surface, bufferType, isNull, nextSinkId)
     IN /\ ~r.thrown
        /\ r.created => nextSinkId <= MaxSinks
        /\ nextSinkId' = IF r.created THEN nextSinkId + 1 ELSE nextSinkId
        /\ SetSurface([r.surface EXCEPT !.effects = <<>>])
  /\ tracks' = [tracks EXCEPT ![bufferType] =
                  IF isNull THEN "disposed" ELSE "active"]
  /\ lastEvent' = IF isNull THEN "representationChange" ELSE "adaptationChange"
  /\ UNCHANGED <<surfaceState, withMediaSource, preOpenSrc, streamState,
                 retryCount, manifest, liveVars, sourceOpened, firstPlayedPeriod,
                 segmentAppended, lastTick, warnings, lastError, emeVars,
                 hostVars>>

ChooseAdaptation(bufferType, isNull) ==
  /\ SwitchAdaptation(bufferType, isNull)
  /\ UNCHANGED <<periodVars, restVars>>

\* the adaptation buffer of a track appends a segment to its sink
AppendSegment(bufferType) ==
  /\ streamState = "started"
  /\ tracks[bufferType] = "active"
  /\ segmentAppended' = TRUE
  /\ ControlUnchanged
  /\ UNCHANGED <<tracks, lastTick, lastEvent, emeVars>>
  /\ UNCHANGED <<hostVars, periodVars, restVars>>

BufferEventTypes == {"filled"}

\* the adaptation buffer of a track emits an event
BufferEvent(bufferType, type) ==
  /\ streamState = "started"
  /\ tracks[bufferType] = "active"
  /\ lastEvent' = type
  /\ ControlUnchanged
  /\ UNCHANGED <<tracks, segmentAppended, lastTick, emeVars>>
  /\ UNCHANGED <<hostVars, periodVars, restVars>>

ManagerEventTypes == {"speed", "stalled"}

\* loadedEvent$, the speed manager or the stalling manager emits
ManagerEvent(type) ==
  /\ streamState = "started"
  /\ lastEvent' = type
  /\ ControlUnchanged
  /\ UNCHANGED <<tracks, segmentAppended, lastTick, emeVars>>
  /\ UNCHANGED <<hostVars, periodVars, restVars>>

(***************************************************************************)
(* EMEManager / createEME: actions                                         *)
(***************************************************************************)
\* the project function of createEME's mergeMap: handleInitEncryptedEvent,
\* merged with handleOngoingPlaybackEncryptedEvents, which subscribes
\* encryptedEvents$ (a new listener of the element behind skip(1), combined
\* with a new findCompatibleKeySystem)
HandleInit(firstEvent) ==
  LET code == handleInitEncryptedEvent(firstEvent, keySystems)
  IN IF code # "none"
     THEN Raise("fatal", code, Surface)
     ELSE /\ emeState' = "creatingMediaKeys"
          /\ emeFirstEvent' = firstEvent
          /\ keySystemFound' = TRUE
          /\ ongoingEvents' = "skipping"
          /\ ongoingKeySystem' = FALSE
          /\ UNCHANGED <<surfaceVars, streamState, retryCount, manifest, liveVars,
                         sourceOpened, firstPlayedPeriod, tracks, warnings,
                         lastError>>

\* the project function of handleOngoingPlaybackEncryptedEvents' mergeMap,
\* for an event that carries initData (or "noInitData")
HandleOngoing(initData) ==
  LET code == handleOngoingPlaybackEncryptedEvents(
                video_mediaKeys, initData, keySystems, mksConfiguration,
                instanceInfos.mediaKeySystemConfiguration)
  IN IF code # "none"
     THEN /\ Raise("fatal", code, Surface)
          /\ UNCHANGED <<loadedSessions, lastEvent>>
     ELSE /\ loadedSessions' = manageSessionCreation(loadedSessions, initData)
          /\ lastEvent' = "eme"
          /\ ongoingEvents' = "open"
          /\ ongoingKeySystem' = TRUE
          /\ UNCHANGED <<surfaceVars, streamState, retryCount, manifest, liveVars,
                         sourceOpened, firstPlayedPeriod, tracks, warnings,
                         lastError, emeState, emeFirstEvent, keySystemFound>>

\* the encrypted events the element may fire, by the initData they carry
EncryptedEvents == {"noInitData", "initData", "otherInitData"}

\* the events of a content whose segments all carry the same initData
ContentEvents == {"noInitData", "initData"}

\* the element fires an encrypted event: it has met the initialization data
\* of an appended segment.  The initData of the first event of a content is
\* called "initData".
EncryptedEvent(initData) ==
  /\ streamState = "started"
  /\ segmentAppended
  /\ emeFirstEvent = "none" => initData # "otherInitData"
  /\ IF ~keySystems.configured
     THEN \* EMEManager without key system
          /\ Raise("fatal", "MEDIA_IS_ENCRYPTED_ERROR", Surface)
          /\ UNCHANGED <<loadedSessions, lastEvent>>
     ELSE IF emeState = "listening" /\ emeFirstEvent = "none"
     THEN \* onEncrypted$(video).take(1)
          IF keySystemFound
          THEN /\ HandleInit(initData)
               /\ UNCHANGED <<loadedSessions, lastEvent>>
          ELSE /\ emeFirstEvent' = initData
               /\ UNCHANGED <<surfaceVars, streamState, retryCount,
                              manifest, liveVars, sourceOpened, firstPlayedPeriod,
                              tracks, warnings, lastError, emeState,
                              keySystemFound, ongoingEvents,
                              ongoingKeySystem, loadedSessions, lastEvent>>
     ELSE IF ongoingEvents = "skipping"
     THEN \* onEncrypted$(video).skip(1): the event is dropped
          /\ ongoingEvents' = "open"
          /\ UNCHANGED <<surfaceVars, streamState, retryCount, manifest, liveVars,
                         sourceOpened, firstPlayedPeriod, tracks, warnings,
                         lastError, emeState, emeFirstEvent, keySystemFound,
                         ongoingKeySystem, loadedSessions, lastEvent>>
     ELSE IF ongoingEvents \in {"open", "pending"} /\ ~ongoingKeySystem
     THEN \* combineLatest keeps the event until the key system is there
          /\ ongoingEvents' = "pending"
          /\ UNCHANGED <<surfaceVars, streamState, retryCount, manifest, liveVars,
                         sourceOpened, firstPlayedPeriod, tracks, warnings,
                         lastError, emeState, emeFirstEvent, keySystemFound,
                         ongoingKeySystem, loadedSessions, lastEvent>>
     ELSE IF ongoingEvents = "open"
     THEN HandleOngoing(initData)
     ELSE \* no listener is left on the element: take(1) has completed and
          \* encryptedEvents$ is not subscribed yet
          UNCHANGED <<surfaceVars, streamState, retryCount, manifest, liveVars,
                      sourceOpened, firstPlayedPeriod, tracks, warnings,
                      lastError, emeState, emeFirstEvent, keySystemFound,
                      ongoingEvents, ongoingKeySystem, loadedSessions,
                      lastEvent>>
  /\ UNCHANGED <<withMediaSource, preOpenSrc, nextSinkId, segmentAppended,
                 lastTick, keySystems, mksConfiguration, video_mediaKeys,
                 instanceInfos>>
  /\ UNCHANGED <<hostVars, periodVars, restVars>>

\* the findCompatibleKeySystem of encryptedEvents$ emits: combineLatest
\* emits the event it kept, if any, which carried initData
OngoingKeySystemFound(initData) ==
  /\ streamState = "started"
  /\ ongoingEvents # "unsubscribed"
  /\ ~ongoingKeySystem
  /\ IF ongoingEvents = "pending"
     THEN HandleOngoing(initData)
     ELSE /\ ongoingKeySystem' = TRUE
          /\ UNCHANGED <<surfaceVars, streamState, retryCount, manifest, liveVars,
                         sourceOpened, firstPlayedPeriod, tracks, warnings,
                         lastError, emeState, emeFirstEvent, keySystemFound,
                         ongoingEvents, loadedSessions, lastEvent>>
  /\ UNCHANGED <<withMediaSource, preOpenSrc, nextSinkId, segmentAppended,
                 lastTick, keySystems, mksConfiguration, video_mediaKeys,
                 instanceInfos>>
  /\ UNCHANGED <<hostVars, periodVars, restVars>>

\* findCompatibleKeySystem emits the key system the environment accepts
KeySystemFound ==
  /\ streamState = "started"
  /\ emeState = "listening"
  /\ keySystems.configured
  /\ ~keySystemFound
  /\ IF emeFirstEvent # "none"
     THEN HandleInit(emeFirstEvent)
     ELSE /\ keySystemFound' = TRUE
          /\ UNCHANGED <<surfaceVars, streamState, retryCount, manifest, liveVars,
                         sourceOpened, firstPlayedPeriod, tracks, warnings,
                         lastError, emeState, emeFirstEvent, ongoingEvents,
                         ongoingKeySystem>>
  /\ UNCHANGED <<withMediaSource, preOpenSrc, nextSinkId, segmentAppended,
                 lastTick, lastEvent, keySystems, mksConfiguration, video_mediaKeys, instanceInfos, loadedSessions>>
  /\ UNCHANGED <<hostVars, periodVars, restVars>>

\* findCompatibleKeySystem fails: the environment accepts no key system
KeySystemNotFound ==
  /\ streamState = "started"
  /\ emeState = "listening"
  /\ keySystems.configured
  /\ ~keySystemFound
  /\ Raise("fatal", "INCOMPATIBLE_KEYSYSTEMS", Surface)
  /\ UNCHANGED <<withMediaSource, preOpenSrc, nextSinkId, segmentAppended,
                 lastTick, lastEvent, keySystems, mksConfiguration, video_mediaKeys, instanceInfos, loadedSessions>>
  /\ UNCHANGED <<hostVars, periodVars, restVars>>

\* setCertificate$ as it would be if it did not look at the MediaKeys
setCertificate_anyMediaKeys(serverCertificate, setServerCertificate) ==
  serverCertificate

\* setCertificate$: trySettingServerCertificate is called, which is so when
\* the key system has a server certificate and the MediaKeys have the
\* function setServerCertificate
setCertificate(serverCertificate, setServerCertificate) ==
  serverCertificate /\ setServerCertificate

\* createMediaKeys resolves with MediaKeys that have setServerCertificate or
\* not; setCertificate$ runs first
MediaKeysCreatedWith(setServerCertificate) ==
  /\ streamState = "started"
  /\ emeState = "creatingMediaKeys"
  /\ emeState' = IF setCertificate(keySystem_serverCertificate,
                                   setServerCertificate)
                 THEN "settingCertificate"
                 ELSE "initializing"
  /\ ControlUnchanged
  /\ UNCHANGED <<tracks, segmentAppended, lastTick, lastEvent, keySystems, mksConfiguration,
                 emeFirstEvent, keySystemFound, ongoingEvents, ongoingKeySystem, video_mediaKeys, instanceInfos, loadedSessions>>
  /\ UNCHANGED <<hostVars, periodVars, restVars>>

MediaKeysCreated ==
  \E setServerCertificate \in BOOLEAN : MediaKeysCreatedWith(setServerCertificate)

\* setCertificate$ completes
CertificateSet ==
  /\ streamState = "started"
  /\ emeState = "settingCertificate"
  /\ emeState' = "initializing"
  /\ ControlUnchanged
  /\ UNCHANGED <<tracks, segmentAppended, lastTick, lastEvent, keySystems, mksConfiguration,
                 emeFirstEvent, keySystemFound, ongoingEvents, ongoingKeySystem, video_mediaKeys, instanceInfos, loadedSessions>>
  /\ UNCHANGED <<hostVars, periodVars, restVars>>

\* setMediaKeys$: the MediaKeys are attached to the element and recorded
SetMediaKeys ==
  /\ streamState = "started"
  /\ emeState \in {"initializing", "sessioned"}
  /\ emeState' = IF emeState = "initializing" THEN "attached" ELSE "configured"
  /\ video_mediaKeys' = "mediaKeys"
  /\ instanceInfos' = [mediaKeys |-> "mediaKeys",
                       mediaKeySystemConfiguration |-> "configuration",
                       keySystem |-> "keySystem",
                       videoElement |-> "video"]
  /\ lastEvent' = "eme"
  /\ ControlUnchanged
  /\ UNCHANGED <<tracks, segmentAppended, lastTick, keySystems, mksConfiguration, emeFirstEvent,
                 keySystemFound, ongoingEvents, ongoingKeySystem, loadedSessions>>
  /\ UNCHANGED <<hostVars, periodVars, restVars>>

\* manageSessionCreation$: a session is created for the initData
CreateSession ==
  /\ streamState = "started"
  /\ emeState \in {"initializing", "attached"}
  /\ emeState' = IF emeState = "initializing" THEN "sessioned" ELSE "configured"
  /\ loadedSessions' = manageSessionCreation(loadedSessions, emeFirstEvent)
  /\ lastEvent' = "eme"
  /\ ControlUnchanged
  /\ UNCHANGED <<tracks, segmentAppended, lastTick, keySystems, mksConfiguration, emeFirstEvent,
                 keySystemFound, ongoingEvents, ongoingKeySystem, video_mediaKeys,
                 instanceInfos>>
  /\ UNCHANGED <<hostVars, periodVars, restVars>>

Next ==
  \/ Subscribe
  \/ \E m \in StaticManifests : ManifestFetched(m)
  \/ \E kind \in ErrorKinds : ManifestError(kind)
  \/ SourceOpen
  \/ RetryFires
  \/ \E tick \in Ticks : Tick(tick)
  \/ Unsubscribe
  \/ \E kind \in ErrorKinds : StreamError(kind)
  \/ \E t \in BufferTypes, isNull \in BOOLEAN : ChooseAdaptation(t, isNull)
  \/ \E t \in BufferTypes : AppendSegment(t)
  \/ \E t \in BufferTypes, type \in BufferEventTypes : BufferEvent(t, type)
  \/ \E type \in ManagerEventTypes : ManagerEvent(type)
  \/ \E initData \in ContentEvents : EncryptedEvent(initData)
  \/ KeySystemFound
  \/ \E initData \in ContentEvents : OngoingKeySystemFound(initData)
  \/ KeySystemNotFound
  \/ MediaKeysCreated
  \/ CertificateSet
  \/ SetMediaKeys
  \/ CreateSession

Spec == StreamInit /\ [][Next]_vars

(***************************************************************************)
(* The start of the Stream and its retries, over a long playback           *)
(***************************************************************************)
\* the most warnings after which the count of retries is still reset
MaxWarnings == 4

\* resetDelay has passed since the last retry: the count of retries starts
\* again
ResetRetryCount ==
  /\ streamState \in {"opening", "started"}
  /\ retryCount > 0
  /\ warnings < MaxWarnings
  /\ retryCount' = 0
  /\ UNCHANGED <<surfaceVars, streamState, manifest, liveVars, sourceOpened,
                 firstPlayedPeriod, tracks, segmentAppended, lastTick,
                 lastEvent, warnings, lastError, emeVars, hostVars,
                 periodVars, restVars>>

\* a clear content
RetryInit ==
  /\ StreamIdle
  /\ withMediaSource \in BOOLEAN
  /\ keySystems = NoKeySystem
  /\ mksConfiguration = "configuration"
  /\ shouldUnsetMediaKeys = TRUE
  /\ RestIdle

RetryNext ==
  \/ Subscribe
  \/ \E m \in StaticManifests : ManifestFetched(m)
  \/ \E kind \in ErrorKinds : ManifestError(kind)
  \/ SourceOpen
  \/ RetryFires
  \/ ResetRetryCount
  \/ \E kind \in ErrorKinds : StreamError(kind)
  \/ Unsubscribe

SpecRetry == RetryInit /\ [][RetryNext]_vars

(***************************************************************************)
(* Live contents: refreshManifest                                          *)
(***************************************************************************)
\* the most manifest requests followed at a time, and the most refreshes
\* followed
MaxFetches == 2
MaxRefreshes == 2

\* refreshManifest as it would be without its test of the url
refreshManifest_anyUrl(m, inFlight) == fetchManifest(inFlight)

\* refreshManifest, when it is subscribed to: the requests under way
refreshManifest(m, inFlight) ==
  IF ~m.url THEN inFlight ELSE fetchManifest(inFlight)

\* the function mapped by refreshManifest on the manifest parsed: the
\* manifest is updated, then put in the event
manifestUpdateEvent(updates) ==
  [updates |-> updates + 1,
   event |-> [manifest |-> "manifest", updates |-> updates + 1]]

\* the buffer of a track meets a segment that is out of the index of its
\* representation: buffers$ gives the message to liveEventsHandler, which
\* refreshes the manifest, when the manifest is live, and emits it otherwise
OutOfIndex(bufferType) ==
  /\ streamState = "started"
  /\ tracks[bufferType] = "active"
  /\ IF Manifests[manifest].isLive
     THEN /\ fetchesInFlight' =
               refreshManifest(Manifests[manifest], fetchesInFlight)
          /\ fetchesInFlight' <= MaxFetches
          /\ UNCHANGED lastEvent
     ELSE /\ lastEvent' = "out-of-index"
          /\ UNCHANGED fetchesInFlight
  /\ UNCHANGED <<surfaceVars, streamState, retryCount, manifest,
                 manifestUpdates, updateEvents, sourceOpened,
                 firstPlayedPeriod, tracks, segmentAppended, lastTick,
                 warnings, lastError, emeVars, hostVars, periodVars, restVars>>

\* the manifest pipeline answers a refresh
ManifestRefreshed ==
  /\ streamState = "started"
  /\ fetchesInFlight > 0
  /\ manifestUpdates < MaxRefreshes
  /\ LET r == manifestUpdateEvent(manifestUpdates)
     IN /\ manifestUpdates' = r.updates
        /\ updateEvents' = Append(updateEvents, r.event)
  /\ fetchesInFlight' = fetchesInFlight - 1
  /\ lastEvent' = "manifestUpdate"
  /\ UNCHANGED <<surfaceVars, streamState, retryCount, manifest,
                 sourceOpened, firstPlayedPeriod, tracks, segmentAppended,
                 lastTick, warnings, lastError, emeVars, hostVars,
                 periodVars, restVars>>

\* the contents played: a live one, with or without the url of its
\* manifest, and one that is not live
LiveContents == {1} \cup (1..Len(Manifests) \ StaticManifests)

LiveInit ==
  /\ StreamIdle
  /\ withMediaSource = TRUE
  /\ keySystems = NoKeySystem
  /\ mksConfiguration = "configuration"
  /\ shouldUnsetMediaKeys = TRUE
  /\ RestIdle

LiveNext ==
  \/ Subscribe
  \/ \E m \in LiveContents : ManifestFetched(m)
  \/ \E kind \in ErrorKinds : ManifestError(kind)
  \/ SourceOpen
  \/ \E t \in NativeTypes : ChooseAdaptation(t, FALSE)
  \/ \E t \in NativeTypes : OutOfIndex(t)
  \/ ManifestRefreshed
  \/ \E kind \in ErrorKinds : StreamError(kind)
  \/ RetryFires
  \/ Unsubscribe

SpecLive == LiveInit /\ [][LiveNext]_vars

(***************************************************************************)
(* The process-wide ProtectionState: dispose, clearEME and the Streams of  *)
(* the process                                                             *)
(***************************************************************************)
\* the longest log of host calls followed
MaxCalls == 2

\* the protection state of the process as one record, and back
Protection ==
  [instanceInfos |-> instanceInfos, loadedSessions |-> loadedSessions,
   mediaKeys |-> [video |-> video_mediaKeys,
                  otherVideo |-> otherVideo_mediaKeys],
   shouldUnsetMediaKeys |-> shouldUnsetMediaKeys]

SetProtection(p) ==
  /\ instanceInfos' = p.instanceInfos
  /\ loadedSessions' = p.loadedSessions
  /\ video_mediaKeys' = p.mediaKeys.video
  /\ otherVideo_mediaKeys' = p.mediaKeys.otherVideo

\* disposeMediaKeys: unsets the mediaKeys of the element, if there is one
disposeMediaKeys(p, videoElement) ==
  IF videoElement = "null" THEN p
  ELSE [p EXCEPT !.mediaKeys[videoElement] = "null"]

\* dispose as it would be if it followed shouldUnsetMediaKeys
dispose_ruleFollowed(p) ==
  LET unset == IF p.shouldUnsetMediaKeys
               THEN disposeMediaKeys(p, p.instanceInfos.videoElement)
               ELSE p
  IN [unset EXCEPT !.instanceInfos = NoInstanceInfos, !.loadedSessions = {}]

\* dispose
dispose(p) ==
  LET unset == disposeMediaKeys(p, p.instanceInfos.videoElement)
  IN [unset EXCEPT !.instanceInfos = NoInstanceInfos, !.loadedSessions = {}]

\* clearEME as it would be if it cleared the whole record
clearEME_allCleared(p) ==
  IF p.instanceInfos.videoElement # "null" /\ p.shouldUnsetMediaKeys
  THEN [disposeMediaKeys(p, p.instanceInfos.videoElement)
          EXCEPT !.instanceInfos = NoInstanceInfos]
  ELSE p

\* clearEME, once the Observable it returns has completed
clearEME(p) ==
  IF p.instanceInfos.videoElement # "null" /\ p.shouldUnsetMediaKeys
  THEN [disposeMediaKeys(p, p.instanceInfos.videoElement)
          EXCEPT !.instanceInfos.videoElement = "null"]
  ELSE p

\* what the host calls leave alone
HostUnchanged ==
  UNCHANGED <<surfaceVars, streamVars, keySystems, emeState, emeFirstEvent,
              keySystemFound, mksConfiguration, ongoingEvents,
              ongoingKeySystem, shouldUnsetMediaKeys, otherStream,
              periodVars, restVars>>

\* the host calls dispose
Dispose ==
  /\ Len(hostCalls) < MaxCalls
  /\ hostCalls' = Append(hostCalls, "dispose")
  /\ SetProtection(dispose(Protection))
  /\ HostUnchanged

\* the host calls clearEME and subscribes to what it returns, once the
\* Stream it played has ended
ClearEME ==
  /\ streamState \in {"completed", "errored", "unsubscribed"}
  /\ Len(hostCalls) < MaxCalls
  /\ hostCalls' = Append(hostCalls, "clearEME")
  /\ SetProtection(clearEME(Protection))
  /\ HostUnchanged

\* the host subscribes to another Stream, made for another element: nothing
\* of Stream looks for a Stream already subscribed
OtherSubscribe ==
  /\ otherStream = "idle"
  /\ otherStream' = "active"
  /\ UNCHANGED <<surfaceVars, streamVars, emeVars, shouldUnsetMediaKeys,
                 hostCalls, otherVideo_mediaKeys, periodVars, restVars>>

\* setMediaKeys$ of the other Stream: its MediaKeys are attached to its
\* element and recorded in instanceInfos
OtherSetMediaKeys ==
  /\ otherStream = "active"
  /\ otherVideo_mediaKeys = "null"
  /\ otherVideo_mediaKeys' = "otherMediaKeys"
  /\ \E mksConfig \in Configurations :
       instanceInfos' = [mediaKeys |-> "otherMediaKeys",
                         mediaKeySystemConfiguration |-> mksConfig,
                         keySystem |-> "keySystem",
                         videoElement |-> "otherVideo"]
  /\ UNCHANGED <<surfaceVars, streamVars, keySystems, emeState, emeFirstEvent,
                 keySystemFound, video_mediaKeys, loadedSessions,
                 mksConfiguration, ongoingEvents, ongoingKeySystem,
                 shouldUnsetMediaKeys, hostCalls, otherStream, periodVars, restVars>>

\* the host unsubscribes from the other Stream
OtherUnsubscribe ==
  /\ otherStream = "active"
  /\ otherStream' = "ended"
  /\ UNCHANGED <<surfaceVars, streamVars, emeVars, shouldUnsetMediaKeys,
                 hostCalls, otherVideo_mediaKeys, periodVars, restVars>>

\* a Stream of protected content, in any environment
ProtectionInit ==
  /\ StreamIdle
  /\ withMediaSource = TRUE
  /\ keySystems \in {KeySystem, PersistentKeySystem}
  /\ mksConfiguration \in Configurations
  /\ shouldUnsetMediaKeys \in BOOLEAN
  /\ RestIdle

ProtectionNext ==
  \/ Subscribe
  \/ ManifestFetched(1)
  \/ SourceOpen
  \/ ChooseAdaptation("video", FALSE)
  \/ AppendSegment("video")
  \/ \E initData \in EncryptedEvents : EncryptedEvent(initData)
  \/ KeySystemFound
  \/ \E initData \in EncryptedEvents : OngoingKeySystemFound(initData)
  \/ MediaKeysCreated
  \/ CertificateSet
  \/ SetMediaKeys
  \/ CreateSession
  \/ Tick([currentTime |-> 119, duration |-> 120])
  \/ Unsubscribe
  \/ Dispose
  \/ ClearEME
  \/ OtherSubscribe
  \/ OtherSetMediaKeys
  \/ OtherUnsubscribe

SpecProtection == ProtectionInit /\ [][ProtectionNext]_vars

(***************************************************************************)
(* createPeriodBuffer: the chain of period buffers of one track            *)
(***************************************************************************)
\* the longest chain of period buffers followed
MaxBuffers == 3

\* the 2 s added to wantedRange.end to look for the next period
Epsilon == 8

NoMessage == [type |-> "none", wantedRangeEnd |-> -1]

\* the messages the adaptation buffer of a period emits: "filled" when the
\* wanted range is covered, "finished" when the end of the period is reached
\* and covered, "segments-queued" otherwise
PeriodMessages(period) ==
  {[type |-> "segments-queued", wantedRangeEnd |-> -1],
   [type |-> "finished", wantedRangeEnd |-> period.end]}
  \cup {[type |-> "filled", wantedRangeEnd |-> e] :
          e \in {period.end - 16, period.end - 8}}

\* bufferEnded$ lets through the "filled" that does not follow a "filled"
bufferEnded(previousType, message) ==
  message.type = "filled" /\ previousType # "filled"

\* bufferFinished$ as it would be if it let every message through
bufferFinished_anyMessage(message) == TRUE

\* bufferFinished$ lets through the "finished"
bufferFinished(message) == message.type = "finished"

\* the period switchNextBuffer$ would look for with an offset of 4 s
switchNextBuffer_period_farther(m, value) ==
  getPeriodForTime(m, value.wantedRangeEnd + 2 * Epsilon)

\* the period switchNextBuffer$ looks for, 0 when there is none
switchNextBuffer_period(m, value) ==
  getPeriodForTime(m, value.wantedRangeEnd + Epsilon)

\* take(1) of the merge of bufferEnded$ and bufferFinished$: the message is
\* the one switchNextBuffer$ switches on
switchNextBuffer(buffer, message) ==
  /\ ~buffer.switched
  /\ bufferEnded(buffer.last.type, message) \/ bufferFinished(message)

\* null, where an Adaptation is expected
NoAdaptation == Adaptation(0)

\* the value switchNextBuffer$ would give the subject if it took the last
\* adaptation of the type
switchNextBuffer_adaptation_last(_period, bufferType) ==
  IF bufferType \in DOMAIN _period.adaptations
  THEN _period.adaptations[bufferType][Len(_period.adaptations[bufferType])]
  ELSE NoAdaptation

\* the value switchNextBuffer$ gives the subject of the buffer it creates:
\* `adaptationsArr ? adaptationsArr[0] : null`
switchNextBuffer_adaptation(_period, bufferType) ==
  IF bufferType \in DOMAIN _period.adaptations
  THEN _period.adaptations[bufferType][1]
  ELSE NoAdaptation

\* the state of the buffer createPeriodBuffer(period, _adaptation$) returns
PeriodBuffer(bufferType, period, adaptation, value) ==
  [bufferType |-> bufferType, \* the type of its track
   period |-> period,         \* index of its period
   adaptation |-> adaptation, \* "pending" | "some" | "null"
   value |-> value,           \* the message that made switchNextBuffer$ create it
   last |-> NoMessage,        \* the last message of its periodBuffer$
   filled |-> FALSE,          \* it has emitted "filled"
   switched |-> FALSE,        \* its switchNextBuffer$ has taken its message
   subscribed |-> TRUE,       \* its periodBuffer$ is still subscribed
   initial |-> NoAdaptation,  \* what its subject held when it was created
   forwarded |-> FALSE,       \* the Observable returned sent its last message on
   completed |-> FALSE]       \* the Observable returned has completed

\* the Observable createPeriodBuffer returns as it would be if it completed
\* with periodBuffer$.takeUntil(bufferFinished$)
createPeriodBuffer_completed_onFinished(buffers, i) == ~buffers[i].subscribed

\* the Observable createPeriodBuffer returns is the merge of
\* switchNextBuffer$ and of periodBuffer$.takeUntil(bufferFinished$): it
\* completes when both have, switchNextBuffer$ completing once it has taken
\* its message and the Observable of the buffer it created, if any, has
\* completed
RECURSIVE createPeriodBuffer_completed(_, _)
createPeriodBuffer_completed(buffers, i) ==
  /\ ~buffers[i].subscribed
  /\ buffers[i].switched
  /\ i < Len(buffers) => createPeriodBuffer_completed(buffers, i + 1)

\* the buffers, the completion of their Observables being worked out
Completed(buffers) ==
  [k \in 1..Len(buffers) |->
     [buffers[k] EXCEPT !.completed = createPeriodBuffer_completed(buffers, k)]]

\* the type of the track whose buffers are followed
chainType == periodBuffers[1].bufferType

\* every message an adaptation buffer may emit
AllPeriodMessages ==
  UNION {UNION {PeriodMessages(Manifests[m].periods[p]) :
                  p \in 1..Len(Manifests[m].periods)} :
           m \in 1..Len(Manifests)}

\* createStream has just returned: the MediaSource is open, the native sinks
\* are there and the period buffer of one track of the first played period is
\* subscribed, its adaptation subject having emitted or not
PeriodsInit ==
  /\ \E m \in StaticManifests, startTime \in StartTimes,
        hasAdaptation \in BOOLEAN :
    LET empty == [video_src |-> "", mediaSource |-> "undefined",
                  ms_readyState |-> "closed", ms_sourceBuffers |-> <<>>,
                  objectURL |-> "null",
                  nativeBuffers |-> [t \in NativeTypes |-> NoSink],
                  customBuffers |-> [t \in CustomTypes |-> NoSink],
                  abortedSinks |-> {}, revokedURLs |-> {}, effects |-> <<>>]
        opened == createMediaSource(empty, ContentURL, TRUE, TRUE).surface
        r == createStream([opened EXCEPT !.ms_readyState = "open"],
                          Manifests[m], startTime, 1)
    IN /\ r.outcome = "ok"
       /\ \E bufferType \in DOMAIN Manifests[m].periods[r.period].adaptations :
            LET b == IF hasAdaptation
                     THEN periodBuffer(r.surface, bufferType, FALSE, r.nextId)
                     ELSE [thrown |-> FALSE, created |-> FALSE, surface |-> r.surface]
            IN /\ ~b.thrown
               /\ video_src = b.surface.video_src
               /\ mediaSource = b.surface.mediaSource
               /\ ms_readyState = b.surface.ms_readyState
               /\ ms_sourceBuffers = b.surface.ms_sourceBuffers
               /\ objectURL = b.surface.objectURL
               /\ nativeBuffers = b.surface.nativeBuffers
               /\ customBuffers = b.surface.customBuffers
               /\ abortedSinks = b.surface.abortedSinks
               /\ revokedURLs = b.surface.revokedURLs
               /\ effects = <<>>
               /\ nextSinkId = IF b.created THEN r.nextId + 1 ELSE r.nextId
               /\ tracks = [t \in BufferTypes |->
                    IF t = bufferType
                    THEN IF hasAdaptation THEN "active" ELSE "pending"
                    ELSE IF t \in DOMAIN Manifests[m].periods[r.period].adaptations
                    THEN "pending" ELSE "none"]
               /\ periodBuffers =
                    << PeriodBuffer(bufferType, r.period,
                         IF hasAdaptation THEN "some" ELSE "pending", NoMessage) >>
               /\ lastEvent = IF hasAdaptation THEN "adaptationChange"
                                               ELSE "manifestChange"
       /\ manifest = m
       /\ firstPlayedPeriod = r.period
  /\ surfaceState = "subscribed"
  /\ withMediaSource = TRUE
  /\ preOpenSrc = ""
  /\ streamState = "started"
  /\ retryCount = 0
  /\ fetchesInFlight = 0
  /\ manifestUpdates = 0
  /\ updateEvents = <<>>
  /\ sourceOpened = TRUE
  /\ segmentAppended = FALSE
  /\ lastTick = NoTick
  /\ warnings = 0
  /\ lastError = NoError
  /\ keySystems = NoKeySystem
  /\ mksConfiguration = "configuration"
  /\ shouldUnsetMediaKeys = TRUE
  /\ emeState = "listening"
  /\ emeFirstEvent = "none"
  /\ keySystemFound = FALSE
  /\ video_mediaKeys = "null"
  /\ instanceInfos = NoInstanceInfos
  /\ loadedSessions = {}
  /\ ongoingEvents = "unsubscribed"
  /\ ongoingKeySystem = FALSE
  /\ hostCalls = <<>>
  /\ otherStream = "idle"
  /\ otherVideo_mediaKeys = "null"
  /\ RestIdle

\* the host emits an adaptation, or null, on the adaptation subject of the
\* track, which the first buffer of the chain is subscribed to
PeriodAdaptation(isNull) ==
  /\ periodBuffers # <<>>
  /\ periodBuffers[1].subscribed
  /\ SwitchAdaptation(chainType, isNull)
  /\ periodBuffers' = [periodBuffers EXCEPT
       ![1].adaptation = IF isNull THEN "null" ELSE "some",
       ![1].last = [type |-> IF isNull THEN "representationChange"
                                        ELSE "adaptationChange",
                    wantedRangeEnd |-> -1],
       ![1].forwarded = TRUE]
  /\ UNCHANGED restVars

\* the adaptation buffer of the i-th period buffer emits a message:
\* switchNextBuffer$ may create the buffer of the period it finds, and
\* takeUntil(bufferFinished$) may end the buffer
PeriodBufferMessage(i, message) ==
  /\ streamState = "started"
  /\ i \in 1..Len(periodBuffers)
  /\ periodBuffers[i].subscribed
  /\ periodBuffers[i].adaptation = "some"
  /\ message \in PeriodMessages(Manifests[manifest].periods[periodBuffers[i].period])
  /\ LET buffer == periodBuffers[i]
         switches == switchNextBuffer(buffer, message)
         _period == IF switches
                    THEN switchNextBuffer_period(Manifests[manifest], message)
                    ELSE 0
         after == [buffer EXCEPT
                     !.last = message,
                     !.filled = @ \/ message.type = "filled",
                     !.switched = @ \/ switches,
                     !.subscribed = ~bufferFinished(message),
                     !.forwarded = ~bufferFinished(message)]
     IN /\ IF _period # 0
           THEN LET isNull == chainType \notin
                      DOMAIN Manifests[manifest].periods[_period].adaptations
                    r == periodBuffer(Surface, chainType, isNull, nextSinkId)
                IN /\ Len(periodBuffers) < MaxBuffers
                   /\ ~r.thrown
                   /\ r.created => nextSinkId <= MaxSinks
                   /\ nextSinkId' = IF r.created THEN nextSinkId + 1
                                                 ELSE nextSinkId
                   /\ SetSurface([r.surface EXCEPT !.effects = <<>>])
                   /\ periodBuffers' = Completed(
                        Append([periodBuffers EXCEPT ![i] = after],
                               [PeriodBuffer(chainType, _period,
                                  IF isNull THEN "null" ELSE "some", message)
                                  EXCEPT !.initial = switchNextBuffer_adaptation(
                                     Manifests[manifest].periods[_period],
                                     chainType)]))
           ELSE /\ periodBuffers' =
                     Completed([periodBuffers EXCEPT ![i] = after])
                /\ UNCHANGED <<video_src, mediaSource, ms_readyState,
                               ms_sourceBuffers, objectURL, nativeBuffers,
                               customBuffers, abortedSinks, revokedURLs,
                               effects, nextSinkId>>
        /\ lastEvent' = IF bufferFinished(message) THEN lastEvent
                                                   ELSE message.type
  /\ UNCHANGED <<surfaceState, withMediaSource, preOpenSrc, streamState,
                 retryCount, manifest, liveVars, sourceOpened, firstPlayedPeriod,
                 tracks, segmentAppended, lastTick, warnings, lastError,
                 emeVars, hostVars>>
  /\ UNCHANGED restVars

PeriodsNext ==
  \/ \E isNull \in BOOLEAN : PeriodAdaptation(isNull)
  \/ \E i \in 1..MaxBuffers, message \in AllPeriodMessages :
       PeriodBufferMessage(i, message)

SpecPeriods == PeriodsInit /\ [][PeriodsNext]_vars

(***************************************************************************)
(* Properties of the presentation surface (checked under SpecSurface)      *)
(***************************************************************************)
SurfaceOpens == surfaceState = "unsubscribed" /\ surfaceState' # "unsubscribed"
SurfaceTornDown == surfaceState = "subscribed" /\ surfaceState' = "disposed"

AttachedSinks == {ms_sourceBuffers[i] : i \in 1..Len(ms_sourceBuffers)}

\* C3: on every exit path, after teardown every native sink attached to the
\* media source and every custom sink has been aborted and removed from the
\* sink memory, the object URL has been revoked and the element's src is
\* cleared.  Stated for a teardown that finds the MediaSource open, the case
\* in which the code calls abort on the sinks it visits.
C3_TeardownAbortsEverySink ==
  [][(SurfaceTornDown /\ ms_readyState = "open") =>
       /\ \A sb \in AttachedSinks : sb \in abortedSinks'
       /\ \A t \in CustomTypes :
            customBuffers[t] # NoSink => customBuffers[t] \in abortedSinks'
       /\ \A t \in NativeTypes : nativeBuffers'[t] = NoSink
       /\ \A t \in CustomTypes : customBuffers'[t] = NoSink
       /\ objectURL \in revokedURLs'
       /\ video_src' = ""]_vars

\* C4 as stated: open then teardown returns the element's src to what it
\* was before open, whatever it was.
C4_TeardownRestoresPreOpenSrc ==
  surfaceState = "disposed" => video_src = preOpenSrc

\* C4 (amended): open then teardown leaves the element with no src, whatever
\* its src was before open; the pre-open src is got back only by an element
\* that had none.
C4_TeardownClearsSrc ==
  surfaceState = "disposed" =>
    /\ video_src = ""
    /\ (video_src = preOpenSrc) <=> (preOpenSrc = "")

C4_Witness ==
  surfaceState = "disposed" /\ preOpenSrc = PrevURL /\ video_src = ""

\* C5 as stated: on open every sink the memory holds from a prior use,
\* native and custom, is aborted and the prior URL revoked before the new
\* src is assigned.
C5_OpenAbortsEveryPriorSink ==
  [][SurfaceOpens =>
       /\ \A t \in NativeTypes :
            nativeBuffers[t] # NoSink => nativeBuffers[t] \in abortedSinks'
       /\ \A t \in CustomTypes :
            customBuffers[t] # NoSink => customBuffers[t] \in abortedSinks'
       /\ video_src # "" => video_src \in revokedURLs']_vars

EffectIndexes(op) == {i \in 1..Len(effects) : effects[i].op = op}

\* C5 (amended): on open the element is reset before the new source is
\* attached: every custom sink of the memory is aborted, every entry of the
\* memory (native and custom) is deleted, the native ones without being
\* aborted, the prior URL (the element's previous src) is revoked, and only
\* then is the new object URL or direct src assigned to the element.
C5_OpenResetsThenAttaches ==
  [][SurfaceOpens =>
       /\ \A t \in CustomTypes :
            customBuffers[t] # NoSink => customBuffers[t] \in abortedSinks'
       /\ \A t \in NativeTypes :
            nativeBuffers[t] # NoSink => nativeBuffers[t] \notin abortedSinks'
       /\ \A t \in NativeTypes : nativeBuffers'[t] = NoSink
       /\ \A t \in CustomTypes : customBuffers'[t] = NoSink
       /\ video_src # "" => video_src \in revokedURLs'
       /\ \A i \in 1..Len(effects') :
            effects'[i].op = "setSrc" => i = Len(effects')
       /\ surfaceState' = "subscribed" =>
            /\ effects'[Len(effects')] = Effect("setSrc", NoSink, video_src')
            /\ video_src' = IF withMediaSource THEN BlobURL ELSE ContentURL
       /\ surfaceState' = "thrown" => video_src' = ""]_vars

C5_Witness ==
  /\ surfaceState = "subscribed"
  /\ PriorSink("text") \in abortedSinks
  /\ PrevURL \in revokedURLs
  /\ EffectIndexes("abort") # {}
  /\ EffectIndexes("revokeObjectURL") # {}
  /\ EffectIndexes("setSrc") = {Len(effects)}

(***************************************************************************)
(* The end of play                                                         *)
(***************************************************************************)
\* C1, as stated: once a tick with duration - currentTime < END_OF_PLAY has
\* been seen the stream has completed, whatever the duration of the tick
C1_EveryEndTickCompletes ==
  (lastTick # NoTick /\ lastTick.duration - lastTick.currentTime < END_OF_PLAY)
    => streamState = "completed"

\* C1, amended: the stream completes on the first tick whose duration is
\* positive and whose duration - currentTime < END_OF_PLAY; a tick whose
\* duration is 0 never completes it
C1_EndTickOfPositiveDurationCompletes ==
  /\ streamState = "completed" =>
       /\ lastTick # NoTick
       /\ lastTick.duration > 0
       /\ lastTick.duration - lastTick.currentTime < END_OF_PLAY
  /\ (streamState # "completed" /\ lastTick # NoTick) =>
       ~(/\ lastTick.duration > 0
         /\ lastTick.duration - lastTick.currentTime < END_OF_PLAY)

C1_Witness ==
  /\ streamState = "completed"
  /\ surfaceState = "disposed"
  /\ lastTick.duration > 0
  /\ lastTick.duration - lastTick.currentTime < END_OF_PLAY

\* C2, as stated: with a duration of 30 s, once a tick whose currentTime is
\* 29.5 s or more has been seen the stream has completed
C2_CompletesFrom29_5 ==
  (lastTick.duration = 120 /\ lastTick.currentTime >= 118)
    => streamState = "completed"

\* C2, amended: with a duration of 30 s the stream completes on the first
\* tick whose currentTime is more than 29.5 s, the tick of 29.5 s does not
\* complete it, and a completed stream takes no step: the completion emits no
\* event and leaves no buffer and no EME subscription behind
C2_CompletesAfter29_5 ==
  [][/\ streamState # "completed"
     /\ lastTick'.duration = 120 =>
          (streamState' = "completed" <=> lastTick'.currentTime > 118)
     /\ streamState' = "completed" =>
          /\ lastEvent' = lastEvent
          /\ \A t \in BufferTypes : tracks'[t] = "none"
          /\ emeState' = "off"]_vars

C2_Witness ==
  /\ streamState = "completed"
  /\ lastTick = [currentTime |-> 119, duration |-> 120]
  /\ lastEvent = "filled"

(***************************************************************************)
(* The native sinks of a started stream                                    *)
(***************************************************************************)
\* C6: when manifestChange has just been emitted, there is exactly one
\* native sink on the MediaSource for every native type of the period of the
\* initial time
C6_NativeSinkPerTypeOfFirstPeriod ==
  (streamState = "started" /\ lastEvent = "manifestChange") =>
    \A T \in NativeTypes :
      T \in DOMAIN Manifests[manifest].periods[firstPlayedPeriod].adaptations
        => Cardinality({i \in 1..Len(ms_sourceBuffers) :
                          ms_sourceBuffers[i].type = T}) = 1

BadStorage == keySystems.persistentLicense /\ ~keySystems.licenseStorage

\* C10, as stated: the stream that fails with INVALID_KEY_SYSTEM has created
\* no sink
C10_FailsBeforeAnySink ==
  (BadStorage /\ lastError.code = "INVALID_KEY_SYSTEM") => nextSinkId = 1

\* C10, amended: with persistentLicense and no licenseStorage the stream
\* fails with a fatal INVALID_KEY_SYSTEM, without a retry, when the first
\* encrypted event, carrying initData, is handled with the key system found:
\* the native sinks exist and segments have been appended by then, and no
\* MediaKeys is ever created or attached
C10_FailsOnFirstEncryptedEvent ==
  [][/\ BadStorage' =>
          /\ video_mediaKeys' = "null"
          /\ emeState' \in {"off", "listening"}
          /\ streamState' = "started" =>
               ~(keySystemFound' /\ emeFirstEvent' = "initData")
     /\ (lastError' # lastError /\ lastError'.code = "INVALID_KEY_SYSTEM") =>
          /\ BadStorage
          /\ lastError'.fatal
          /\ streamState = "started" /\ streamState' = "errored"
          /\ retryCount' = retryCount /\ warnings' = warnings
          /\ segmentAppended
          /\ emeFirstEvent = "initData" \/ keySystemFound
          /\ nextSinkId > 1]_vars

C10_Witness ==
  /\ streamState = "errored"
  /\ lastError.code = "INVALID_KEY_SYSTEM"
  /\ nextSinkId > 1
  /\ abortedSinks # {}

(***************************************************************************)
(* The chain of period buffers                                             *)
(***************************************************************************)
PeriodOf(k) == Manifests[manifest].periods[periodBuffers[k].period]

\* the buffers switchNextBuffer$ created for another period than the period
\* of the buffer that created them
NextPeriodBuffers ==
  {k \in 2..Len(periodBuffers) :
     periodBuffers[k].period # periodBuffers[k - 1].period}

\* C7, as stated: the buffer of the next period is created by a message whose
\* wantedRange.end is at or after the end of the period of the buffer that
\* emitted it
C7_SpawnedOnceRangeReachesPeriodEnd ==
  \A k \in NextPeriodBuffers :
    periodBuffers[k].value.wantedRangeEnd >= PeriodOf(k - 1).end

\* C7, amended: a buffer is created by a "filled" or a "finished" of its
\* predecessor, for the period that holds wantedRange.end + 2 s; it is a
\* buffer of the next period as soon as wantedRange.end is within 2 s of the
\* end of the period, and a second buffer of the same period before that
C7_SpawnedForPeriodOfRangeEndPlusEpsilon ==
  \A k \in 2..Len(periodBuffers) :
    LET value == periodBuffers[k].value
    IN /\ value.type \in {"filled", "finished"}
       /\ PeriodOf(k).start <= value.wantedRangeEnd + Epsilon
       /\ value.wantedRangeEnd + Epsilon < PeriodOf(k).end
       /\ periodBuffers[k].period >= periodBuffers[k - 1].period
       /\ (k \in NextPeriodBuffers) <=>
            (value.wantedRangeEnd + Epsilon >= PeriodOf(k - 1).end)

C7_Witness ==
  \E k \in NextPeriodBuffers :
    /\ periodBuffers[k].value.type = "filled"
    /\ periodBuffers[k].value.wantedRangeEnd < PeriodOf(k - 1).end

\* C8, as stated: the buffer that created the buffer of the next period has
\* emitted "filled"
C8_SpawnedAfterFilled ==
  \A k \in NextPeriodBuffers : periodBuffers[k - 1].filled

\* C8, amended: a buffer is created by the first "filled" or "finished" its
\* predecessor emits, whichever comes first: a "finished" that no "filled"
\* came before creates it
C8_SpawnedOnFirstFilledOrFinished ==
  [][Len(periodBuffers') > Len(periodBuffers) =>
       LET n == Len(periodBuffers)
       IN /\ Len(periodBuffers') = n + 1
          /\ ~periodBuffers[n].switched
          /\ ~periodBuffers[n].filled
          /\ periodBuffers[n].last.type # "finished"
          /\ periodBuffers'[n].switched
          /\ periodBuffers'[n].last.type \in {"filled", "finished"}
          /\ periodBuffers'[n + 1].value = periodBuffers'[n].last]_vars

C8_Witness ==
  \E k \in NextPeriodBuffers :
    /\ periodBuffers[k].value.type = "finished"
    /\ ~periodBuffers[k - 1].filled


(***************************************************************************)
(* Encrypted events after the first one                                    *)
(***************************************************************************)
\* the step hands an encrypted event carrying initData, fired after the
\* first one, to handleOngoingPlaybackEncryptedEvents
OngoingEventHandled(initData) ==
  /\ streamState = "started"
  /\ \/ ongoingEvents = "open" /\ ongoingKeySystem
     \/ ongoingEvents = "pending" /\ ~ongoingKeySystem
  /\ HandleOngoing(initData)

\* the configuration found for a later event is not the one recorded
ConfigurationDiffers ==
  ~compareMksConfigurations(mksConfiguration,
                            instanceInfos.mediaKeySystemConfiguration)

\* C11, as stated: a later encrypted event (with initData, on an element that
\* has its mediaKeys) whose key-system configuration differs from the
\* recorded one fails with INVALID_KEY_SYSTEM, and no session is created
C11_ConfigurationMismatchIsInvalidKeySystem ==
  [][\A initData \in EncryptedEvents \ {"noInitData"} :
       (/\ OngoingEventHandled(initData)
        /\ video_mediaKeys # "null"
        /\ ConfigurationDiffers)
       => /\ lastError'.code = "INVALID_KEY_SYSTEM"
          /\ loadedSessions' = loadedSessions]_vars


\* the element fires an encrypted event after the first one of the content
LaterEncryptedEvent(initData) ==
  /\ emeFirstEvent # "none"
  /\ EncryptedEvent(initData)

\* C12, as stated: every encrypted event fired after the first one is handed
\* to the session creation (or kept until the key system is found), none is
\* dropped
C12_EveryLaterEventIsProcessed ==
  [][(\E initData \in EncryptedEvents : LaterEncryptedEvent(initData))
       => \E initData \in EncryptedEvents :
            /\ LaterEncryptedEvent(initData)
            /\ \/ OngoingEventHandled(initData)
               \/ ongoingEvents' = "pending"]_vars


(***************************************************************************)
(* dispose and clearEME                                                    *)
(***************************************************************************)
\* the step is a call of the host to dispose, or to clearEME
HostCalled(call) == hostCalls' = Append(hostCalls, call)

\* the last call of the host
LastCall == IF hostCalls = <<>> THEN "none" ELSE hostCalls[Len(hostCalls)]

\* the four fields of instanceInfos are null and no session is loaded
ProtectionCleared ==
  /\ instanceInfos'.mediaKeys = "null"
  /\ instanceInfos'.mediaKeySystemConfiguration = "null"
  /\ instanceInfos'.keySystem = "null"
  /\ instanceInfos'.videoElement = "null"
  /\ loadedSessions' = {}

\* C13, as stated: dispose nulls the four fields and closes the sessions, and
\* leaves the mediaKeys of the elements alone when shouldUnsetMediaKeys says
\* not to unset them
C13_DisposeFollowsTheRule ==
  [][HostCalled("dispose")
       => /\ ProtectionCleared
          /\ ~shouldUnsetMediaKeys
               => UNCHANGED <<video_mediaKeys, otherVideo_mediaKeys>>]_vars

\* C13: dispose nulls the four fields and closes the sessions, and unsets the
\* mediaKeys of the element that was recorded, whatever shouldUnsetMediaKeys
\* says; the mediaKeys of another element are left alone
C13_DisposeClearsAndUnsets ==
  [][HostCalled("dispose")
       => /\ ProtectionCleared
          /\ video_mediaKeys' =
               IF instanceInfos.videoElement = "video" THEN "null"
               ELSE video_mediaKeys
          /\ otherVideo_mediaKeys' =
               IF instanceInfos.videoElement = "otherVideo" THEN "null"
               ELSE otherVideo_mediaKeys]_vars

\* dispose has been called, with a rule that says not to unset, while the
\* MediaKeys of the Stream were attached and sessions loaded: they are not
\* any more
C13_Witness ==
  /\ LastCall = "dispose"
  /\ ~shouldUnsetMediaKeys
  /\ emeState = "configured"
  /\ video_mediaKeys = "null"
  /\ instanceInfos = NoInstanceInfos
  /\ loadedSessions = {}


\* the Stream has been torn down: it has completed, failed or been
\* unsubscribed from
TornDown == streamState \in {"completed", "errored", "unsubscribed"}

\* C14, as stated: once the Stream is torn down and clearEME has been called
\* for it, under a rule that says to unset, the four fields of instanceInfos
\* are null
C14_TeardownClearsProtectionState ==
  (/\ TornDown
   /\ LastCall = "clearEME"
   /\ otherStream = "idle"
   /\ shouldUnsetMediaKeys)
  => instanceInfos = NoInstanceInfos

\* C14: the teardown of the Stream leaves instanceInfos, the mediaKeys of the
\* element and the sessions as they are; clearEME, under a rule that says to
\* unset and with an element recorded, unsets the mediaKeys of that element
\* and forgets the element only: mediaKeys, configuration and keySystem stay
\* recorded and the sessions loaded.  Otherwise clearEME changes nothing.
C14_ClearEMEForgetsTheElementOnly ==
  [][/\ (streamState \in Live /\ TornDown')
          => UNCHANGED <<instanceInfos, video_mediaKeys,
                         otherVideo_mediaKeys, loadedSessions>>
     /\ HostCalled("clearEME")
          => /\ loadedSessions' = loadedSessions
             /\ IF shouldUnsetMediaKeys /\ instanceInfos.videoElement # "null"
                THEN /\ instanceInfos' =
                          [instanceInfos EXCEPT !.videoElement = "null"]
                     /\ video_mediaKeys' =
                          IF instanceInfos.videoElement = "video"
                          THEN "null" ELSE video_mediaKeys
                     /\ otherVideo_mediaKeys' =
                          IF instanceInfos.videoElement = "otherVideo"
                          THEN "null" ELSE otherVideo_mediaKeys
                ELSE UNCHANGED <<instanceInfos, video_mediaKeys,
                                 otherVideo_mediaKeys>>]_vars

\* clearEME has been called after the teardown of a Stream whose MediaKeys
\* were attached, under a rule that says to unset: the element has lost its
\* mediaKeys and is forgotten, the rest of instanceInfos is still recorded
C14_Witness ==
  /\ TornDown
  /\ LastCall = "clearEME"
  /\ otherStream = "idle"
  /\ shouldUnsetMediaKeys
  /\ video_mediaKeys = "null"
  /\ instanceInfos = [mediaKeys |-> "mediaKeys",
                      mediaKeySystemConfiguration |-> "configuration",
                      keySystem |-> "keySystem",
                      videoElement |-> "null"]


(***************************************************************************)
(* The Streams of the process                                              *)
(***************************************************************************)
\* C15, as stated: no Stream is subscribed to while another one is active,
\* so that instanceInfos is never used by two active Streams
C15_AtMostOneActiveStream ==
  ~(streamState \in Live /\ otherStream = "active")


(***************************************************************************)
(* createStream: the first played period                                   *)
(***************************************************************************)
\* createStream, run on the surface s, gets as far as computing the initial
\* time: the MediaSource is there and the native sinks have been added
InitialTimeComputed(m, s) ==
  /\ s.mediaSource = "ms"
  /\ ~addNativeSourceBuffers(DOMAIN manifestAdaptations(Manifests[m]),
                             Manifests[m], s, nextSinkId).thrown

\* the surfaces createStream may run on: the surface as it is, when the
\* manifest is the last to come, or just opened
StartSurfaces == {Surface, [Surface EXCEPT !.ms_readyState = "open"]}

\* C16: when createStream computes an initial time that no period of the
\* manifest holds, the Stream fails with a fatal MediaError
\* MEDIA_STARTING_TIME_NOT_FOUND, without a retry or a warning: no track has
\* an adaptation subject or a buffer and no manifestChange is emitted
C16_StartingTimeNotFound ==
  [][\A m \in StaticManifests, startTime \in StartTimes, s \in StartSurfaces :
       (/\ streamState = "opening"
        /\ StartAt(m, s, startTime)
        /\ InitialTimeComputed(m, s)
        /\ getPeriodForTime(Manifests[m], startTime) = 0)
       => /\ streamState' = "errored"
          /\ lastError' = [type |-> "known", fatal |-> TRUE,
                           code |-> "MEDIA_STARTING_TIME_NOT_FOUND"]
          /\ retryCount' = retryCount
          /\ warnings' = warnings
          /\ firstPlayedPeriod' = 0
          /\ \A t \in BufferTypes : tracks'[t] = "none"
          /\ lastEvent' = lastEvent]_vars

\* the first attempt of a Stream has added its native sinks and failed for
\* its initial time, before any event
C16_Witness ==
  /\ streamState = "errored"
  /\ lastError.code = "MEDIA_STARTING_TIME_NOT_FOUND"
  /\ retryCount = 0
  /\ nextSinkId > 1
  /\ lastEvent = "none"


(***************************************************************************)
(* retryOptions                                                            *)
(***************************************************************************)
\* an error of the kind is raised inside openStream
ErrorRaised(kind) == ManifestError(kind) \/ StreamError(kind)

\* C17: a known error whose fatal flag is set ends the Stream with that
\* error at once: no retry is counted or scheduled and no warning is sent
C17_FatalErrorIsNotRetried ==
  [][ErrorRaised("fatal")
       => /\ streamState' = "errored"
          /\ lastError'.type = "known"
          /\ lastError'.fatal
          /\ retryCount' = retryCount
          /\ warnings' = warnings]_vars

\* the first error of a Stream was a fatal one
C17_Witness ==
  /\ streamState = "errored"
  /\ lastError = [type |-> "known", code |-> "PIPELINE_LOAD_ERROR",
                  fatal |-> TRUE]
  /\ retryCount = 0
  /\ warnings = 0

\* C18: the count of retries never exceeds totalRetry; an unknown error, or
\* a known one whose fatal flag is not set, is retried while the count is
\* under totalRetry, each retry sending one warning; at totalRetry the Stream
\* fails, with an OtherError whose fatal flag is set for an unknown error and
\* with the known error, its fatal flag set, otherwise
C18_RetriedUpToTotalRetry ==
  [][/\ retryCount' <= totalRetry
     /\ \A kind \in {"unknown", "nonFatal"} :
          ErrorRaised(kind)
          => IF retryCount < totalRetry
             THEN /\ streamState' = "backoff"
                  /\ retryCount' = retryCount + 1
                  /\ warnings' = warnings + 1
                  /\ lastError' = lastError
             ELSE /\ streamState' = "errored"
                  /\ warnings' = warnings
                  /\ lastError'.fatal
                  /\ lastError'.type =
                       IF kind = "unknown" THEN "OtherError" ELSE "known"]_vars

\* an unknown error has used up the retries: three warnings were sent and
\* the Stream has failed with a fatal OtherError
C18_Witness ==
  /\ streamState = "errored"
  /\ lastError = [type |-> "OtherError", code |-> "NONE", fatal |-> TRUE]
  /\ retryCount = totalRetry
  /\ warnings = totalRetry


(***************************************************************************)
(* The manifest requests and the refreshes of a live manifest              *)
(***************************************************************************)
\* C19: at most one request of the manifest is under way, the first one and
\* the refreshes alike; the i-th manifestUpdate event carries the manifest
\* object of the Stream, already updated i times; no request is under way
\* and no manifestUpdate is emitted for a manifest without url; no
\* manifestUpdate is emitted for a manifest that is not live
C19_OneFetchAndUpdatesInPlace ==
  /\ fetchesInFlight <= 1
  /\ Len(updateEvents) = manifestUpdates
  /\ \A i \in 1..Len(updateEvents) :
       updateEvents[i] = [manifest |-> "manifest", updates |-> i]
  /\ (manifest # 0 /\ streamState = "started")
       => /\ ~Manifests[manifest].url
            => fetchesInFlight = 0 /\ updateEvents = <<>>
          /\ ~Manifests[manifest].isLive
            => fetchesInFlight = 0 /\ updateEvents = <<>>

\* a live manifest has been refreshed once and a second refresh is under way
C19_Witness ==
  /\ streamState = "started"
  /\ Manifests[manifest].isLive
  /\ updateEvents = << [manifest |-> "manifest", updates |-> 1] >>
  /\ lastEvent = "manifestUpdate"
  /\ fetchesInFlight = 1


(***************************************************************************)
(* null on the adaptation subject of a track                               *)
(***************************************************************************)
\* the i-th period buffer of the track has an adaptation buffer running
AdaptationBufferRuns(buffers, i) ==
  buffers[i].subscribed /\ buffers[i].adaptation = "some"

\* C20, as stated: when null is emitted on the adaptation subject of a track,
\* the sink of its type is disposed, adaptationChange then
\* representationChange are emitted, and no adaptation buffer of the track
\* is left running, so that none of their events follows
C20_NullDisposesTheTrack ==
  [][PeriodAdaptation(TRUE)
       => /\ IF shouldHaveNativeSourceBuffer(chainType)
             THEN nativeBuffers'[chainType] = NoSink
             ELSE customBuffers'[chainType] = NoSink
          /\ lastEvent' = "representationChange"
          /\ \A i \in 1..Len(periodBuffers') :
               ~AdaptationBufferRuns(periodBuffers', i)]_vars


(***************************************************************************)
(* One running adaptation buffer per track                                 *)
(***************************************************************************)
\* the period buffers of the track whose adaptation buffer is running, on
\* the segment bookkeeper and the sink of the type of the track
RunningBuffers ==
  {i \in 1..Len(periodBuffers) : AdaptationBufferRuns(periodBuffers, i)}

\* C21, as stated: at most one adaptation buffer of a track runs at any time,
\* on the segment bookkeeper and the sink of its type: the buffer of a period
\* does not run any more once the buffer of the next period has been created
C21_OneRunningBufferPerTrack ==
  /\ Cardinality(RunningBuffers) <= 1
  /\ \A k \in NextPeriodBuffers : ~AdaptationBufferRuns(periodBuffers, k - 1)


(***************************************************************************)
(* setDurationToMediaSource                                                *)
(***************************************************************************)
\* the number of calls of setDurationToMediaSource followed
MaxDurationCalls == 3

\* what manifest.getDuration() may return: 0 s, 30 s, 40 s, the largest
\* number, and Infinity for a content with no end
ManifestDurations ==
  {Number(0), Number(120), Number(160), Number_MAX_VALUE, Infinity}

\* a !== b of two numbers: NaN differs from every number, itself included
strictNotEquals(a, b) == a = NaN \/ b = NaN \/ a # b

\* the MediaSource, as far as its duration goes
MediaSourceDuration == [duration |-> ms_duration, sets |-> ms_durationSets]

\* setDurationToMediaSource as it would be if it wrote Infinity as it is
setDurationToMediaSource_infinityKept(ms, duration) ==
  IF strictNotEquals(ms.duration, duration)
  THEN [duration |-> duration, sets |-> Append(ms.sets, duration)]
  ELSE ms

\* setDurationToMediaSource(mediaSource, duration)
setDurationToMediaSource(ms, duration) ==
  LET newDuration == IF duration = Infinity THEN Number_MAX_VALUE ELSE duration
  IN IF strictNotEquals(ms.duration, newDuration)
     THEN [duration |-> newDuration, sets |-> Append(ms.sets, newDuration)]
     ELSE ms

\* createStream sets the duration of the MediaSource, which it does every
\* time it runs on the MediaSource, from the manifest it was given
SetDuration(duration) ==
  /\ Len(durationCalls) < MaxDurationCalls
  /\ durationCalls' = Append(durationCalls, duration)
  /\ LET ms == setDurationToMediaSource(MediaSourceDuration, duration)
     IN /\ ms_duration' = ms.duration
        /\ ms_durationSets' = ms.sets
  /\ UNCHANGED <<surfaceVars, streamVars, emeVars, hostVars, periodVars,
                 overlayVars, keySystem_serverCertificate>>

DurationInit ==
  /\ StreamIdle
  /\ withMediaSource = TRUE
  /\ keySystems = NoKeySystem
  /\ mksConfiguration = "configuration"
  /\ shouldUnsetMediaKeys = TRUE
  /\ RestIdle

DurationNext == \E duration \in ManifestDurations : SetDuration(duration)

SpecDuration == DurationInit /\ [][DurationNext]_vars

\* C22: a duration of Infinity is written to the MediaSource as
\* Number.MAX_VALUE and never as Infinity, any other duration is written as
\* it is, and nothing is written when the MediaSource already has the value
C22_InfinityIsWrittenAsMaxValue ==
  [][\A duration \in ManifestDurations :
       SetDuration(duration) =>
         LET value == IF duration = Infinity THEN Number_MAX_VALUE
                                             ELSE duration
         IN /\ ms_duration' = value
            /\ ms_duration' # Infinity
            /\ ms_durationSets' = IF ms_duration = value
                                  THEN ms_durationSets
                                  ELSE Append(ms_durationSets, value)]_vars

\* Infinity was given, then a number, then the same number again, and the
\* MediaSource was written twice
C22_Witness ==
  /\ Len(durationCalls) = 3
  /\ durationCalls[1] = Infinity
  /\ durationCalls[2] = Number(120)
  /\ durationCalls[3] = Number(120)
  /\ ms_durationSets = <<Number_MAX_VALUE, Number(120)>>


(***************************************************************************)
(* OverlayTrackSourceBuffer.  Times are counted in units of                *)
(* MAXIMUM_OVERLAY_TRACK_UPDATE_INTERVAL / 3000 seconds.                   *)
(***************************************************************************)
\* the number of segments appended to the sink
MaxAppends == 2

\* the last time of the content
MaxTime == 2

\* MAXIMUM_OVERLAY_TRACK_UPDATE_INTERVAL / 3000
OverlayEpsilon == 1

Max(a, b) == IF a >= b THEN a ELSE b
Min(a, b) == IF a <= b THEN a ELSE b

\* the times of [start, end)
TimeRange(start, end) == {t \in 0..MaxTime : start <= t /\ t < end}

\* something the sink did: a warning of the log, a lookup of the ledger, a
\* removeChild or an appendChild on the host region
Op(op, value) == [op |-> op, value |-> value]

\* the segments given to _append: data.timescale, data.start and data.end,
\* which may be left undefined
OverlaySegments ==
  {[timescale |-> timescale, start |-> timescale * start, hasEnd |-> TRUE,
    end |-> timescale * end] :
     timescale \in {1, 2}, start \in 0..(MaxTime - 1), end \in 0..MaxTime}
  \cup {[timescale |-> timescale, start |-> timescale * start,
         hasEnd |-> FALSE, end |-> 0] :
          timescale \in {1, 2}, start \in 0..(MaxTime - 1)}

\* the sink
Overlay ==
  [clock |-> overlayClock, buffer |-> overlay_buffer,
   buffered |-> overlay_buffered, currentElement |-> overlay_currentElement,
   children |-> overlayTrackElement, elements |-> overlayElements,
   ops |-> overlayOps]

SetOverlay(o) ==
  /\ overlayClock' = o.clock
  /\ overlay_buffer' = o.buffer
  /\ overlay_buffered' = o.buffered
  /\ overlay_currentElement' = o.currentElement
  /\ overlayTrackElement' = o.children
  /\ overlayElements' = o.elements
  /\ overlayOps' = o.ops

\* parseMetaDASHOverlay: one element, newly created, for the overlay the
\* segment holds; the overlay lasts as long as the segment, and one unit of
\* time when the segment has no end
parseOverlayToElements(data, element) ==
  LET start == data.start \div data.timescale
  IN << [start |-> start,
         end |-> IF data.hasEnd THEN data.end \div data.timescale
                                ELSE start + 1,
         element |-> element] >>

\* what is left of an entry of the ledger once [from, to) is taken out
entryWithout(entry, from, to) ==
  IF from < to /\ entry.start < to /\ from < entry.end
  THEN {e \in {[entry EXCEPT !.end = Min(entry.end, from)],
               [entry EXCEPT !.start = Max(entry.start, to)]} :
          e.start < e.end}
  ELSE {entry}

\* TimedDataBufferManager.remove(from, to)
TimedDataBufferManager_remove(buffer, from, to) ==
  UNION {entryWithout(entry, from, to) : entry \in buffer}

\* TimedDataBufferManager.insert(cues, start, end): the cues take the place
\* of what the ledger held in [start, end)
TimedDataBufferManager_insert(buffer, cues, start, end) ==
  TimedDataBufferManager_remove(buffer, start, end)
  \cup {cues[i] : i \in 1..Len(cues)}

NoOverlay == [start |-> 0, end |-> 0, data |-> 0]

\* TimedDataBufferManager.get(time): the entry whose [start, end) holds time
TimedDataBufferManager_get(buffer, time) ==
  LET found == {e \in buffer : e.start <= time /\ time < e.end}
  IN IF found = {} THEN NoOverlay ELSE CHOOSE e \in found : TRUE

\* _append as it would be if it tested the end against undefined
_append_endDefined(o, data) ==
  IF data.hasEnd /\ data.end - data.start <= 0
  THEN [o EXCEPT !.ops = <<Op("warn", 0)>>]
  ELSE LET startTime == data.start \div data.timescale
           overlays == parseOverlayToElements(data, o.elements + 1)
           end == IF data.hasEnd THEN data.end \div data.timescale
                                 ELSE overlays[Len(overlays)].end
           formattedData == [i \in 1..Len(overlays) |->
                               [start |-> overlays[i].start,
                                end |-> overlays[i].end,
                                data |-> overlays[i].element]]
       IN [o EXCEPT
             !.elements = @ + 1,
             !.buffer = TimedDataBufferManager_insert(@, formattedData,
                                                      startTime, end),
             !.buffered = @ \cup TimeRange(startTime, end),
             !.ops = <<>>]

\* _append(data): `timescaledEnd && ...` is false when the end is 0
_append(o, data) ==
  IF (data.hasEnd /\ data.end # 0) /\ data.end - data.start <= 0
  THEN [o EXCEPT !.ops = <<Op("warn", 0)>>]
  ELSE LET startTime == data.start \div data.timescale
           overlays == parseOverlayToElements(data, o.elements + 1)
           end == IF data.hasEnd THEN data.end \div data.timescale
                                 ELSE overlays[Len(overlays)].end
           formattedData == [i \in 1..Len(overlays) |->
                               [start |-> overlays[i].start,
                                end |-> overlays[i].end,
                                data |-> overlays[i].element]]
       IN [o EXCEPT
             !.elements = @ + 1,
             !.buffer = TimedDataBufferManager_insert(@, formattedData,
                                                      startTime, end),
             !.buffered = @ \cup TimeRange(startTime, end),
             !.ops = <<>>]

\* _remove as it would be if it took the range out of buffered as well
_remove_buffered(o, from, to) ==
  [o EXCEPT !.buffer = TimedDataBufferManager_remove(@, from, to),
            !.buffered = @ \ TimeRange(from, to),
            !.ops = <<>>]

\* _remove(from, to)
_remove(o, from, to) ==
  [o EXCEPT !.buffer = TimedDataBufferManager_remove(@, from, to),
            !.ops = <<>>]

\* safelyRemoveChild(overlayTrackElement, child)
safelyRemoveChild(o, child) ==
  IF child # 0
  THEN [o EXCEPT !.children = RemoveFromList(@, child),
                 !.ops = Append(@, Op("removeChild", child))]
  ELSE o

\* the subscriber of the clock as it would be if it attached the new element
\* without removing the previous one
refresh_previousKept(o, shouldDisplay, currentTime) ==
  IF ~shouldDisplay
  THEN [safelyRemoveChild([o EXCEPT !.ops = <<>>], o.currentElement)
          EXCEPT !.currentElement = 0]
  ELSE LET time == Max(currentTime - OverlayEpsilon, 0)
           overlay == TimedDataBufferManager_get(o.buffer, time)
           looked == [o EXCEPT !.ops = <<Op("get", time)>>]
       IN IF overlay = NoOverlay
          THEN [safelyRemoveChild(looked, o.currentElement)
                  EXCEPT !.currentElement = 0]
          ELSE IF o.currentElement = overlay.data
          THEN looked
          ELSE [looked EXCEPT
                  !.currentElement = overlay.data,
                  !.children = Append(@, overlay.data),
                  !.ops = Append(@, Op("appendChild", overlay.data))]

\* the subscriber of the clock, called with shouldDisplay when the video is
\* at currentTime
refresh(o, shouldDisplay, currentTime) ==
  IF ~shouldDisplay
  THEN [safelyRemoveChild([o EXCEPT !.ops = <<>>], o.currentElement)
          EXCEPT !.currentElement = 0]
  ELSE LET time == Max(currentTime - OverlayEpsilon, 0)
           overlay == TimedDataBufferManager_get(o.buffer, time)
           looked == [o EXCEPT !.ops = <<Op("get", time)>>]
       IN IF overlay = NoOverlay
          THEN [safelyRemoveChild(looked, o.currentElement)
                  EXCEPT !.currentElement = 0]
          ELSE IF o.currentElement = overlay.data
          THEN looked
          ELSE LET removed == safelyRemoveChild(looked, o.currentElement)
               IN [removed EXCEPT
                     !.currentElement = overlay.data,
                     !.children = Append(@, overlay.data),
                     !.ops = Append(@, Op("appendChild", overlay.data))]

\* _abort as it would be if it left the clock subscribed
_abort_clockKept(o) ==
  safelyRemoveChild([o EXCEPT !.ops = <<>>], o.currentElement)

\* _abort(): _destroy$ emits, which ends the subscription to the clock
_abort(o) ==
  safelyRemoveChild([o EXCEPT !.clock = "destroyed", !.ops = <<>>],
                    o.currentElement)

OverlayUnchanged ==
  UNCHANGED <<surfaceVars, streamVars, emeVars, hostVars, periodVars,
              mediaVars, keySystem_serverCertificate>>

\* appendBuffer(data)
OverlayAppend(data) ==
  /\ overlayClock # "none"
  /\ overlayElements < MaxAppends
  /\ SetOverlay(_append(Overlay, data))
  /\ OverlayUnchanged

\* _remove(from, to)
OverlayRemove(from, to) ==
  /\ overlayClock # "none"
  /\ SetOverlay(_remove(Overlay, from, to))
  /\ OverlayUnchanged

\* _abort()
OverlayAbort ==
  /\ overlayClock \in {"running", "paused"}
  /\ SetOverlay(_abort(Overlay))
  /\ OverlayUnchanged

\* autoRefresh$ emits: MAXIMUM_OVERLAY_TRACK_UPDATE_INTERVAL has passed
OverlayInterval(currentTime) ==
  /\ overlayClock = "running"
  /\ SetOverlay(refresh(Overlay, TRUE, currentTime))
  /\ OverlayUnchanged

\* the seeking of the video as it would be if it ended autoRefresh$ without
\* the final false
OverlaySeeking_elementKept ==
  /\ overlayClock = "running"
  /\ SetOverlay([Overlay EXCEPT !.clock = "paused", !.ops = <<>>])
  /\ OverlayUnchanged

\* the video emits seeking: takeUntil(seeking$) ends autoRefresh$ and false
\* is emitted
OverlaySeeking ==
  /\ overlayClock = "running"
  /\ SetOverlay([refresh(Overlay, FALSE, 0) EXCEPT !.clock = "paused"])
  /\ OverlayUnchanged

\* the video emits seeked or ended: switchMapTo starts autoRefresh$ again,
\* which emits at once
OverlaySeeked(currentTime) ==
  /\ overlayClock \in {"running", "paused"}
  /\ SetOverlay([refresh(Overlay, TRUE, currentTime) EXCEPT !.clock = "running"])
  /\ OverlayUnchanged

\* the sink has just been constructed: the clock has emitted once, with
\* nothing in the ledger
OverlayInit ==
  /\ StreamIdle
  /\ withMediaSource = TRUE
  /\ keySystems = NoKeySystem
  /\ mksConfiguration = "configuration"
  /\ shouldUnsetMediaKeys = TRUE
  /\ MediaIdle
  /\ ServerCertificateGiven
  /\ overlayClock = "running"
  /\ overlay_buffer = {}
  /\ overlay_buffered = {}
  /\ overlay_currentElement = 0
  /\ overlayTrackElement = <<>>
  /\ overlayElements = 0
  /\ overlayOps = <<Op("get", 0)>>

OverlayNext ==
  \/ \E data \in OverlaySegments : OverlayAppend(data)
  \/ \E from \in 0..MaxTime, to \in 0..(MaxTime + 1) : OverlayRemove(from, to)
  \/ OverlayAbort
  \/ \E currentTime \in 0..(MaxTime + 1) : OverlayInterval(currentTime)
  \/ OverlaySeeking
  \/ \E currentTime \in 0..(MaxTime + 1) : OverlaySeeked(currentTime)

SpecOverlay == OverlayInit /\ [][OverlayNext]_vars

(***************************************************************************)
(* The overlay sink: appended segments                                     *)
(***************************************************************************)
\* C23, as stated: a segment appended to the overlay sink whose end is at or
\* before its start, an end of 0 included, is rejected with a warning:
\* neither the ledger of elements nor the buffered ranges of the sink change
C23_InvalidSegmentIsRejected ==
  [][\A data \in OverlaySegments :
       (OverlayAppend(data) /\ data.hasEnd /\ data.end <= data.start)
         => /\ overlayOps' = <<Op("warn", 0)>>
            /\ overlay_buffer' = overlay_buffer
            /\ overlay_buffered' = overlay_buffered]_vars

(***************************************************************************)
(* The overlay sink: the element attached to the host region               *)
(***************************************************************************)
\* the clock makes the sink look for the element of currentTime
OverlayRefresh(currentTime) ==
  OverlayInterval(currentTime) \/ OverlaySeeked(currentTime)

\* the places in overlayOps' of the operations op
OpIndexes(op) == {i \in 1..Len(overlayOps') : overlayOps'[i].op = op}

\* C24: at most one element is attached to the host region and it is the
\* current element; when the clock selects another element the previous one
\* is removed from the region before the new one is attached, when it
\* selects the current element the region is not touched, and when no
\* element holds the time the current element is removed
C24_OneElementAttached ==
  /\ [](/\ Len(overlayTrackElement) <= 1
        /\ overlayTrackElement # <<>>
             => overlayTrackElement = <<overlay_currentElement>>)
  /\ [][\A currentTime \in 0..(MaxTime + 1) :
         OverlayRefresh(currentTime) =>
           LET time == Max(currentTime - OverlayEpsilon, 0)
               selected == TimedDataBufferManager_get(overlay_buffer, time)
           IN IF selected = NoOverlay
              THEN /\ overlayTrackElement' = <<>>
                   /\ overlay_currentElement' = 0
                   /\ OpIndexes("appendChild") = {}
              ELSE IF selected.data = overlay_currentElement
              THEN /\ overlayTrackElement' = overlayTrackElement
                   /\ overlay_currentElement' = overlay_currentElement
                   /\ OpIndexes("appendChild") = {}
                   /\ OpIndexes("removeChild") = {}
              ELSE /\ overlayTrackElement' = <<selected.data>>
                   /\ overlay_currentElement' = selected.data
                   /\ \A i \in OpIndexes("removeChild") :
                        \A j \in OpIndexes("appendChild") : i < j
                   /\ overlayTrackElement # <<>>
                        => OpIndexes("removeChild") # {}]_vars

\* the clock has selected another element than the one that was attached
C24_Witness ==
  /\ Len(overlayOps) = 3
  /\ overlayOps[2].op = "removeChild"
  /\ overlayOps[3].op = "appendChild"
  /\ overlayTrackElement = <<overlayOps[3].value>>

(***************************************************************************)
(* The overlay sink: abort                                                 *)
(***************************************************************************)
\* C25: abort ends the subscription to the clock and removes the attached
\* element from the host region, and no element is attached afterwards,
\* whatever the clock, the video and the appends do
C25_NothingAttachedAfterAbort ==
  /\ [][OverlayAbort => /\ overlayClock' = "destroyed"
                        /\ overlayTrackElement' = <<>>
                        /\ overlayTrackElement # <<>>
                             => overlayOps' = <<Op("removeChild",
                                                   overlayTrackElement[1])>>]_vars
  /\ [](overlayClock = "destroyed" => overlayTrackElement = <<>>)
  /\ [][overlayClock = "destroyed"
         => overlayClock' = "destroyed" /\ OpIndexes("appendChild") = {}]_vars

\* the sink was aborted while an element was attached, and a segment that
\* holds every time has been appended since
C25_Witness ==
  /\ overlayClock = "destroyed"
  /\ overlay_currentElement # 0
  /\ overlayOps = <<>>
  /\ \E entry \in overlay_buffer :
       /\ entry.data > overlay_currentElement
       /\ entry.start = 0
       /\ entry.end = MaxTime

(***************************************************************************)
(* The overlay sink: the buffered ranges and the ledger                    *)
(***************************************************************************)
\* the times the ledger holds an element for
LedgerTimes ==
  UNION {TimeRange(entry.start, entry.end) : entry \in overlay_buffer}

\* C30, as stated: the buffered ranges the sink reports are the time ranges
\* its ledger holds: _append(start, end) adds [start, end) to both and
\* _remove(from, to) takes [from, to) out of both
C30_BufferedIsWhatTheLedgerHolds ==
  /\ [](overlay_buffered = LedgerTimes)
  /\ [][\A from \in 0..MaxTime, to \in 0..(MaxTime + 1) :
         OverlayRemove(from, to)
           => /\ overlay_buffered' = overlay_buffered \ TimeRange(from, to)
              /\ LedgerTimes' = LedgerTimes \ TimeRange(from, to)]_vars

(***************************************************************************)
(* The successor of a period buffer                                        *)
(***************************************************************************)
\* the periods of the manifest that hold the time
PeriodsHolding(time) ==
  {p \in 1..Len(Manifests[manifest].periods) :
     /\ Manifests[manifest].periods[p].start <= time
     /\ time < Manifests[manifest].periods[p].end}

\* C26: only the first "filled" or "finished" of a period buffer makes it
\* look for a period, the one that holds wantedRange.end + 2 s: when there
\* is one, a buffer is created for it and for the same type of track, its
\* subject holding the first adaptation of the type in that period, or null
\* when the period has none; no buffer is created otherwise
C26_OneSuccessorForThePeriodOfRangeEnd ==
  [][\A i \in 1..Len(periodBuffers) :
       LET message == periodBuffers'[i].last IN
       PeriodBufferMessage(i, message) =>
         LET n == Len(periodBuffers)
             first == /\ ~periodBuffers[i].switched
                      /\ message.type \in {"filled", "finished"}
             holding == PeriodsHolding(message.wantedRangeEnd + Epsilon)
         IN IF first /\ holding # {}
            THEN /\ Len(periodBuffers') = n + 1
                 /\ periodBuffers'[i].switched
                 /\ LET new == periodBuffers'[n + 1]
                        bufferType == periodBuffers[i].bufferType
                        adaptations ==
                          Manifests[manifest].periods[new.period].adaptations
                    IN /\ new.period \in holding
                       /\ new.bufferType = bufferType
                       /\ IF bufferType \in DOMAIN adaptations
                          THEN /\ new.initial = adaptations[bufferType][1]
                               /\ new.adaptation = "some"
                          ELSE /\ new.initial = NoAdaptation
                               /\ new.adaptation = "null"
            ELSE Len(periodBuffers') = n]_vars

\* a "filled" has created a buffer for a period that has two adaptations of
\* the type
C26_Witness ==
  /\ \E k \in 2..Len(periodBuffers) :
       /\ Len(PeriodOf(k).adaptations[periodBuffers[k].bufferType]) = 2
       /\ periodBuffers[k].initial = Adaptation(2)
       /\ periodBuffers[k - 1].filled
       /\ periodBuffers[k - 1].last.type = "filled"

(***************************************************************************)
(* What a period buffer sends on, and when it completes                    *)
(***************************************************************************)
\* C27: once a period buffer has emitted "finished" none of its events is
\* sent on, the events of the buffer it created are sent on as before, and
\* the Observable of the period buffer completes only when the period buffer
\* has emitted "finished" and the Observable of the buffer it created, if
\* any, has completed
C27_FinishedBufferIsSilent ==
  /\ [][\A i \in 1..Len(periodBuffers) :
         periodBuffers[i].last.type = "finished"
           => /\ periodBuffers'[i].forwarded = periodBuffers[i].forwarded
              /\ periodBuffers'[i].last = periodBuffers[i].last]_vars
  /\ [][\A i \in 2..Len(periodBuffers) :
         LET message == periodBuffers'[i].last IN
         (/\ periodBuffers[i - 1].last.type = "finished"
          /\ message.type # "finished"
          /\ PeriodBufferMessage(i, message))
           => periodBuffers'[i].forwarded]_vars
  /\ [](\A i \in 1..Len(periodBuffers) :
          /\ periodBuffers[i].last.type = "finished"
               => ~periodBuffers[i].forwarded
          /\ periodBuffers[i].completed
               => /\ periodBuffers[i].last.type = "finished"
                  /\ i < Len(periodBuffers) => periodBuffers[i + 1].completed)

\* a period buffer has emitted "finished", which created the buffer of the
\* next period; that buffer has emitted since and has not completed
C27_Witness ==
  /\ Len(periodBuffers) >= 2
  /\ periodBuffers[1].last.type = "finished"
  /\ periodBuffers[2].value.type = "finished"
  /\ periodBuffers[2].last.type = "filled"
  /\ periodBuffers[2].forwarded
  /\ ~periodBuffers[1].completed

(***************************************************************************)
(* The retry of openStream once the stream has started                     *)
(***************************************************************************)
\* SpecRetry with what the scheduling of the code guarantees: the timer of
\* the backoff fires, the manifest pipeline answers the request it was given
\* and the element opens a closed MediaSource attached to it
SpecRetryFair ==
  /\ SpecRetry
  /\ WF_vars(RetryFires)
  /\ WF_vars(\E m \in StaticManifests : ManifestFetched(m))
  /\ WF_vars(SourceOpen)

\* the stream has emitted manifestChange and openStream waits to be retried
RetryingAfterStart ==
  /\ streamState = "backoff"
  /\ lastEvent = "manifestChange"

\* the manifest of the retry has arrived and createStream has not run
RetryWaitsForSourceOpen ==
  /\ streamState = "opening"
  /\ lastEvent = "manifestChange"
  /\ manifest # 0
  /\ ~sourceOpened
  /\ ms_readyState = "open"

\* C28: a retry that follows an error raised once the stream has started
\* runs createStream again (which emits manifestChange) as soon as the
\* manifest has been fetched again, unless the Stream has ended meanwhile
\* (the host unsubscribed, or a later error was not retried): it does not
\* stay waiting for the "sourceopen" the MediaSource fired before the retry
C28_RetryAfterStartRestarts ==
  RetryingAfterStart ~> (streamState \in {"started", "errored", "unsubscribed", "completed"})

(***************************************************************************)
(* The Stream without a MediaSource (withMediaSource false)                *)
(***************************************************************************)
\* nothing of the started stream has been seen: no manifestChange, no event
\* of a buffer, no track
NothingEmitted ==
  /\ lastEvent = "none"
  /\ streamState # "started"
  /\ \A t \in BufferTypes : tracks[t] = "none"

\* the manifest arrives: combineLatest emits at once, sourceOpening$ being
\* Observable.of(null)
ManifestFetchedWithoutMediaSource ==
  /\ ~withMediaSource
  /\ \E m \in StaticManifests : ManifestFetched(m)

\* the Stream has failed with the fatal MediaError of createStream, the
\* retry count and the warnings being left as they were, and the teardown
\* has cleared the src of the element
FailedForMissingMediaSource ==
  /\ streamState' = "errored"
  /\ lastError' = [type |-> "known", fatal |-> TRUE,
                   code |-> "UNAVAILABLE_MEDIA_SOURCE"]
  /\ retryCount' = retryCount
  /\ warnings' = warnings
  /\ surfaceState' = "disposed"
  /\ video_src' = ""

\* C29: with withMediaSource false the Stream emits neither manifestChange
\* nor any event of a buffer; the step in which the manifest arrives fails
\* the Stream with the fatal MediaError UNAVAILABLE_MEDIA_SOURCE, without a
\* retry, and clears the src of the element
C29_NoMediaSourceFailsAtTheManifest ==
  /\ [](~withMediaSource => NothingEmitted)
  /\ [][ManifestFetchedWithoutMediaSource => FailedForMissingMediaSource]_vars

\* the Stream without MediaSource has failed at the manifest, the src having
\* been the URL of the content until then
C29_Witness ==
  /\ ~withMediaSource
  /\ streamState = "errored"
  /\ lastError.code = "UNAVAILABLE_MEDIA_SOURCE"
  /\ video_src = ""
  /\ effects # <<>>

(***************************************************************************)
(* The overlay sink: the clock                                             *)
(***************************************************************************)
\* the time at which a refresh looks the ledger up when the video is at
\* currentTime
LookupTime(currentTime) == Max(currentTime - OverlayEpsilon, 0)

\* the step has looked the ledger up
LooksUp == OpIndexes("get") # {}

\* C31: the seeking event removes the current element and stops the
\* periodic refresh, and until the next seeked or ended event no element is
\* attached to the host region and the ledger is not looked up; a seeked or
\* ended event refreshes at once and starts the periodic refresh again; a
\* refresh looks the ledger up at max(currentTime - interval/3000, 0), which
\* is never negative
C31_NothingAttachedWhileSeeking ==
  /\ [][OverlaySeeking
         => /\ overlayClock' = "paused"
            /\ overlayTrackElement' = <<>>
            /\ overlay_currentElement' = 0
            /\ ~LooksUp
            /\ overlayTrackElement # <<>>
                 => overlayOps' = <<Op("removeChild",
                                       overlayTrackElement[1])>>]_vars
  /\ [](overlayClock = "paused" => overlayTrackElement = <<>>)
  /\ [][(overlayClock = "paused" /\ LooksUp)
         => \E currentTime \in 0..(MaxTime + 1) : OverlaySeeked(currentTime)]_vars
  /\ [][\A currentTime \in 0..(MaxTime + 1) :
         OverlaySeeked(currentTime)
           => /\ overlayClock' = "running"
              /\ overlayOps'[1] = Op("get", LookupTime(currentTime))]_vars
  /\ [](overlayClock = "running"
        => \A currentTime \in 0..(MaxTime + 1) :
             ENABLED OverlayInterval(currentTime))
  /\ [][\A currentTime \in 0..(MaxTime + 1) :
         OverlayInterval(currentTime)
           => /\ overlayClock' = "running"
              /\ overlayOps'[1] = Op("get", LookupTime(currentTime))]_vars
  /\ [](\A i \in 1..Len(overlayOps) :
          overlayOps[i].op = "get" => overlayOps[i].value >= 0)

\* the video is seeking and the element that was attached has been removed
\* from the host region
C31_Witness ==
  /\ overlayClock = "paused"
  /\ Len(overlayOps) = 1
  /\ overlayOps[1].op = "removeChild"
  /\ overlay_buffer # {}

(***************************************************************************)
(* The first encrypted event of a protected content                        *)
(***************************************************************************)
\* a content played with a key system, which has a server certificate or not
EncryptedInit ==
  /\ StreamIdle
  /\ withMediaSource = TRUE
  /\ keySystems \in {k \in KeySystemOptions : k.configured}
  /\ mksConfiguration = "configuration"
  /\ shouldUnsetMediaKeys = TRUE
  /\ MediaIdle
  /\ OverlayIdle
  /\ keySystem_serverCertificate \in BOOLEAN

EncryptedNext ==
  \/ Subscribe
  \/ \E m \in StaticManifests : ManifestFetched(m)
  \/ SourceOpen
  \/ \E t \in BufferTypes, isNull \in BOOLEAN : ChooseAdaptation(t, isNull)
  \/ \E t \in BufferTypes : AppendSegment(t)
  \/ \E initData \in ContentEvents : EncryptedEvent(initData)
  \/ KeySystemFound
  \/ \E initData \in ContentEvents : OngoingKeySystemFound(initData)
  \/ MediaKeysCreated
  \/ CertificateSet
  \/ SetMediaKeys
  \/ CreateSession
  \/ Unsubscribe

SpecEncrypted == EncryptedInit /\ [][EncryptedNext]_vars

\* the step in which handleInitEncryptedEvent is called with firstEvent: the
\* first encrypted event when the key system is there, the key system when
\* the event is there
HandlesFirstEvent(firstEvent) ==
  \/ /\ EncryptedEvent(firstEvent)
     /\ emeState = "listening"
     /\ emeFirstEvent = "none"
     /\ keySystemFound
  \/ /\ KeySystemFound
     /\ emeFirstEvent = firstEvent

\* ProtectionState, the MediaKeys of the element and the sessions are left
\* as they were
ProtectionUnchanged ==
  /\ instanceInfos' = instanceInfos
  /\ video_mediaKeys' = video_mediaKeys
  /\ loadedSessions' = loadedSessions

\* the states of the driver in which the MediaKeys are there and
\* setCertificate$ has completed
CertificateDone == {"initializing", "attached", "sessioned", "configured"}

\* C32: on the first encrypted event the event without initData and the
\* persistent license without storage fail the Stream fatally, createMediaKeys
\* not being called and ProtectionState being left as it was; otherwise the
\* MediaKeys are created; then the server certificate is set, to completion,
\* when the key system has one and the MediaKeys can take it; only then are
\* the MediaKeys attached to the element and the session created, in either
\* order
C32_FirstEncryptedEventOrder ==
  /\ [][\A firstEvent \in ContentEvents :
         HandlesFirstEvent(firstEvent) =>
           /\ ProtectionUnchanged
           /\ IF firstEvent = "noInitData"
              THEN /\ streamState' = "errored"
                   /\ emeState' = "off"
                   /\ lastError' = [type |-> "known", fatal |-> TRUE,
                                    code |-> "INVALID_ENCRYPTED_EVENT"]
              ELSE IF keySystems.persistentLicense /\ ~keySystems.licenseStorage
              THEN /\ streamState' = "errored"
                   /\ emeState' = "off"
                   /\ lastError' = [type |-> "known", fatal |-> TRUE,
                                    code |-> "INVALID_KEY_SYSTEM"]
              ELSE /\ streamState' = "started"
                   /\ emeState' = "creatingMediaKeys"]_vars
  /\ [][(emeState' = "creatingMediaKeys" /\ emeState # "creatingMediaKeys")
         => \E firstEvent \in ContentEvents : HandlesFirstEvent(firstEvent)]_vars
  /\ [][\A setServerCertificate \in BOOLEAN :
         MediaKeysCreatedWith(setServerCertificate) =>
           /\ ProtectionUnchanged
           /\ emeState' = IF keySystem_serverCertificate /\ setServerCertificate
                          THEN "settingCertificate" ELSE "initializing"]_vars
  /\ [][(emeState' = "settingCertificate" /\ emeState # "settingCertificate")
         => emeState = "creatingMediaKeys"]_vars
  /\ [][emeState = "settingCertificate"
         => /\ ProtectionUnchanged
            /\ emeState' \in {"settingCertificate", "initializing", "off"}
            /\ emeState' = "initializing" => CertificateSet]_vars
  /\ [][(emeState' = "initializing" /\ emeState # "initializing")
         => emeState \in {"creatingMediaKeys", "settingCertificate"}]_vars
  /\ [][~ProtectionUnchanged => emeState \in CertificateDone]_vars
  /\ [][SetMediaKeys => emeState \in {"initializing", "sessioned"}]_vars
  /\ [][CreateSession => emeState \in {"initializing", "attached"}]_vars
  /\ [](emeState \in {"listening", "creatingMediaKeys", "settingCertificate"}
          => /\ video_mediaKeys = "null"
             /\ instanceInfos = NoInstanceInfos
             /\ loadedSessions = {})

\* the key system has a server certificate and the session of the first event
\* has been created while the MediaKeys are not attached to the element yet
C32_Witness ==
  /\ keySystem_serverCertificate
  /\ emeState = "sessioned"
  /\ emeFirstEvent = "initData"
  /\ loadedSessions = {"initData"}
  /\ video_mediaKeys = "null"

====
